---- MODULE Spec2Model ----
(***************************************************************************)
(* A model of simple-bundler (the AST based SimpleBundler of               *)
(* src/index.html, lines 251-872): path resolution, the dependency graph,  *)
(* the analyzer, the module transformer, the plugin host, the bundle       *)
(* emitter and the emitted require() runtime.                              *)
(*                                                                         *)
(* Text is a sequence of items.  An item is a record: one character, one   *)
(* token, or an opaque stretch of source (a statement, the body of a       *)
(* declaration).  Offsets count items.  Paths and specifiers are sequences *)
(* of one-character strings.                                               *)
(***************************************************************************)
EXTENDS Integers, Sequences, FiniteSets, TLC

(***************************************************************************)
(* Strings                                                                 *)
(***************************************************************************)

\* String.prototype.startsWith
StartsWith(s, p) ==
    /\ Len(s) >= Len(p)
    /\ SubSeq(s, 1, Len(p)) = p

\* String.prototype.endsWith
EndsWith(s, p) ==
    /\ Len(s) >= Len(p)
    /\ SubSeq(s, Len(s) - Len(p) + 1, Len(s)) = p

DotJs == <<".", "j", "s">>

RECURSIVE SplitFrom(_, _, _)
\* the segments of s between "/" characters; cur is the segment being read
SplitFrom(s, i, cur) ==
    IF i > Len(s) THEN <<cur>>
    ELSE IF s[i] = "/" THEN <<cur>> \o SplitFrom(s, i + 1, <<>>)
    ELSE SplitFrom(s, i + 1, Append(cur, s[i]))

Split(s) == SplitFrom(s, 1, <<>>)

RECURSIVE JoinSegs(_)
\* "/" + seg1 + "/" + seg2 ...
JoinSegs(segs) ==
    IF segs = <<>> THEN <<>>
    ELSE <<"/">> \o Head(segs) \o JoinSegs(Tail(segs))

RECURSIVE Normalize(_, _)
\* path normalisation: "" and "." are dropped, ".." removes the last segment
Normalize(segs, acc) ==
    IF segs = <<>> THEN acc
    ELSE LET h == Head(segs) IN
         IF h = <<>> \/ h = <<".">> THEN Normalize(Tail(segs), acc)
         ELSE IF h = <<".", ".">>
              THEN Normalize(Tail(segs),
                             IF acc = <<>> THEN acc ELSE SubSeq(acc, 1, Len(acc) - 1))
              ELSE Normalize(Tail(segs), Append(acc, h))

\* the process working directory
Cwd == <<"/", "w">>

\* path.resolve(base, p) for an absolute base
PathResolve(base, p) ==
    LET segs == IF StartsWith(p, <<"/">>) THEN Split(p) ELSE Split(base) \o Split(p)
        norm == Normalize(segs, <<>>)
    IN  IF norm = <<>> THEN <<"/">> ELSE JoinSegs(norm)

\* path.dirname(p) for an absolute, normalised p
PathDirname(p) ==
    LET segs == Normalize(Split(p), <<>>)
    IN  IF Len(segs) <= 1 THEN <<"/">> ELSE JoinSegs(SubSeq(segs, 1, Len(segs) - 1))

RECURSIVE CommonPrefixLen(_, _)
CommonPrefixLen(a, b) ==
    IF a = <<>> \/ b = <<>> \/ Head(a) # Head(b) THEN 0
    ELSE 1 + CommonPrefixLen(Tail(a), Tail(b))

RECURSIVE JoinRel(_)
\* seg1 + "/" + seg2 ...
JoinRel(segs) ==
    IF segs = <<>> THEN <<>>
    ELSE IF Len(segs) = 1 THEN Head(segs)
    ELSE Head(segs) \o <<"/">> \o JoinRel(Tail(segs))

\* path.relative(from, to) for absolute paths
PathRelative(from, to) ==
    LET f == Normalize(Split(from), <<>>)
        t == Normalize(Split(to), <<>>)
        n == CommonPrefixLen(f, t)
        ups == [i \in 1..(Len(f) - n) |-> <<".", ".">>]
    IN  JoinRel(ups \o SubSeq(t, n + 1, Len(t)))

(***************************************************************************)
(* Path resolver                                                           *)
(***************************************************************************)

isLocalModule(modulePath) ==
    \/ StartsWith(modulePath, <<".", "/">>)
    \/ StartsWith(modulePath, <<".", ".", "/">>)
    \/ StartsWith(modulePath, <<"/">>)

\* a resolution that would paste the specifier after the importer's directory
resolveDependencyPathJoined(importerPath, dependencyPath) ==
    PathDirname(importerPath) \o <<"/">>
        \o (IF EndsWith(dependencyPath, DotJs) THEN dependencyPath
            ELSE dependencyPath \o DotJs)

resolveDependencyPath(importerPath, dependencyPath) ==
    PathResolve(PathDirname(importerPath),
                IF EndsWith(dependencyPath, DotJs) THEN dependencyPath
                ELSE dependencyPath \o DotJs)

\* './' + path.relative(process.cwd(), absolutePath)
RelativeKey(absolutePath) == <<".", "/">> \o PathRelative(Cwd, absolutePath)

(***************************************************************************)
(* Text items and the syntax tree                                          *)
(***************************************************************************)

Null == [type |-> "Null"]

IsNull(v) == v.type = "Null"

\* one character of text
Ch(c) == [k |-> "ch", c |-> c]

RECURSIVE Chars(_)
\* the items of a sequence of characters
Chars(s) == IF s = <<>> THEN <<>> ELSE <<Ch(Head(s))>> \o Chars(Tail(s))

NL == Ch("\n")

IsSpace(item) == item.k = "ch" /\ item.c \in {" ", "\n", "\t"}

RECURSIVE TrimLeft(_)
TrimLeft(t) ==
    IF t # <<>> /\ IsSpace(Head(t)) THEN TrimLeft(Tail(t)) ELSE t

RECURSIVE TrimRight(_)
TrimRight(t) ==
    IF t # <<>> /\ IsSpace(t[Len(t)]) THEN TrimRight(SubSeq(t, 1, Len(t) - 1)) ELSE t

\* String.prototype.trim
Trim(t) == TrimRight(TrimLeft(t))

\* String.prototype.substring(start, end), offsets counted from 0
Substring(t, start, end) ==
    LET n  == Len(t)
        a0 == IF start < 0 THEN 0 ELSE IF start > n THEN n ELSE start
        b0 == IF end < 0 THEN 0 ELSE IF end > n THEN n ELSE end
        a  == IF a0 <= b0 THEN a0 ELSE b0
        b  == IF a0 <= b0 THEN b0 ELSE a0
    IN  SubSeq(t, a + 1, b)

\* String.prototype.substring(start)
SubstringFrom(t, start) == Substring(t, start, Len(t))

\* 'export '
ExportKw == <<"e", "x", "p", "o", "r", "t", " ">>

\* 'export default '
ExportDefaultKw == ExportKw \o <<"d", "e", "f", "a", "u", "l", "t", " ">>

\* the property name 'default'
DefaultName == <<"d", "e", "f", "a", "u", "l", "t">>

\* an untouched stretch of source text holding one syntax node
Src(node) == [k |-> "src", node |-> node]

\* syntax nodes, as the parser gives them
Literal(value) == [type |-> "Literal", value |-> value]

Identifier(name) == [type |-> "Identifier", name |-> name]

ImportDefaultSpecifier(local) ==
    [type |-> "ImportDefaultSpecifier", imported |-> DefaultName, local |-> local]

ImportSpecifier(imported, local) ==
    [type |-> "ImportSpecifier", imported |-> imported, local |-> local]

ImportNamespaceSpecifier(local) ==
    [type |-> "ImportNamespaceSpecifier", imported |-> <<"*">>, local |-> local]

ImportDeclaration(specifiers, source) ==
    [type |-> "ImportDeclaration", specifiers |-> specifiers, source |-> Literal(source)]

ExportSpecifier(local, exported) == [local |-> local, exported |-> exported]

\* export <declaration>
ExportDeclaration(declaration) ==
    [type |-> "ExportNamedDeclaration", declaration |-> declaration,
     specifiers |-> <<>>, source |-> Null]

\* export { ... }
ExportList(specifiers) ==
    [type |-> "ExportNamedDeclaration", declaration |-> Null,
     specifiers |-> specifiers, source |-> Null]

\* export { ... } from 'source'
ExportFrom(specifiers, source) ==
    [type |-> "ExportNamedDeclaration", declaration |-> Null,
     specifiers |-> specifiers, source |-> Literal(source)]

ExportDefaultDeclaration(declaration) ==
    [type |-> "ExportDefaultDeclaration", declaration |-> declaration]

VariableDeclarator(id, init) == [id |-> id, init |-> init]

VariableDeclaration(kind, declarations) ==
    [type |-> "VariableDeclaration", kind |-> kind, declarations |-> declarations]

FunctionDeclaration(id) == [type |-> "FunctionDeclaration", id |-> id]

ClassDeclaration(id) == [type |-> "ClassDeclaration", id |-> id]

\* expressions and plain statements
Num(v) == [type |-> "Num", v |-> v]

\* () => body
Arrow(body) == [type |-> "ArrowFunctionExpression", body |-> body]

\* callee()
Call(callee) == [type |-> "CallExpression", callee |-> callee]

\* object.property
Member(object, property) ==
    [type |-> "MemberExpression", object |-> object, property |-> property]

\* left + right
Add(left, right) == [type |-> "BinaryExpression", left |-> left, right |-> right]

\* function () {}  or  class {}
Anonymous(type) == [type |-> type, id |-> Null]

\* console.log(argument);
Log(argument) == [type |-> "Log", argument |-> argument]

\* export * from 'source';
ExportAll(source) == [type |-> "ExportAllDeclaration", source |-> Literal(source)]

\* try { require("key"); } catch (e) { console.log(e); }
TryRequire(key) == [type |-> "TryStatement", key |-> key]

\* throw new Error("thrown");
Throw == [type |-> "ThrowStatement"]

\* tokens of an import declaration as written
Word(w) == [k |-> "w", w |-> w]

Ident(name) == [k |-> "id", name |-> name]

StrLit(v) == [k |-> "str", v |-> v]

RECURSIVE NamedClause(_)
\* x, y as z, ... : the inside of the braces of an import declaration
NamedClause(specs) ==
    IF specs = <<>> THEN <<>>
    ELSE LET sp == Head(specs)
             one == IF sp.imported = sp.local THEN <<Ident(sp.local)>>
                    ELSE <<Ident(sp.imported), Ch(" "), Word("as"), Ch(" "), Ident(sp.local)>>
         IN  one \o (IF Len(specs) > 1 THEN <<Ch(","), Ch(" ")>> ELSE <<>>)
                 \o NamedClause(Tail(specs))

OfType(specs, t) == SelectSeq(specs, LAMBDA sp : sp.type = t)

\* the import clause: default, then namespace or braces
ImportClause(specs) ==
    LET defs  == OfType(specs, "ImportDefaultSpecifier")
        nss   == OfType(specs, "ImportNamespaceSpecifier")
        named == OfType(specs, "ImportSpecifier")
        d == IF defs = <<>> THEN <<>> ELSE <<Ident(defs[1].local)>>
        rest == IF nss # <<>>
                THEN <<Ch("*"), Ch(" "), Word("as"), Ch(" "), Ident(nss[1].local)>>
                ELSE IF named # <<>>
                THEN <<Ch("{"), Ch(" ")>> \o NamedClause(named) \o <<Ch(" "), Ch("}")>>
                ELSE <<>>
    IN  d \o (IF d # <<>> /\ rest # <<>> THEN <<Ch(","), Ch(" ")>> ELSE <<>>) \o rest

\* import <clause> from 'S';   or   import 'S';
UnparseImport(n) ==
    IF n.specifiers = <<>>
    THEN <<Word("import"), Ch(" "), StrLit(n.source.value), Ch(";")>>
    ELSE <<Word("import"), Ch(" ")>> \o ImportClause(n.specifiers)
         \o <<Ch(" "), Word("from"), Ch(" "), StrLit(n.source.value), Ch(";")>>

\* the text of one top-level statement of a source file, as written
UnparseNode(n) ==
    IF n.type = "ImportDeclaration" THEN UnparseImport(n)
    ELSE IF n.type = "ExportNamedDeclaration" /\ ~IsNull(n.declaration)
    THEN Chars(ExportKw) \o <<Src(n.declaration)>>
    ELSE IF n.type = "ExportDefaultDeclaration" /\ n.declaration.type # "Identifier"
    THEN Chars(ExportDefaultKw) \o <<Src(n.declaration)>>
    ELSE <<Src(n)>>

RECURSIVE Unparse(_)
\* the source text of a program: its statements, one per line
Unparse(body) ==
    IF body = <<>> THEN <<>>
    ELSE UnparseNode(Head(body)) \o <<NL>> \o Unparse(Tail(body))

RECURSIVE Locate(_, _)
\* the parser's positions: each top-level node with start and end, and the
\* start and end of its declaration, offsets counted from 0
Locate(body, at) ==
    IF body = <<>> THEN <<>>
    ELSE LET n == Head(body)
             w == Len(UnparseNode(n))
         IN  <<[node |-> n, start |-> at, end |-> at + w,
                declStart |-> at + w - 1, declEnd |-> at + w]>>
             \o Locate(Tail(body), at + w + 1)

\* acorn.parse(content, ...): the located top-level nodes of a program
Parse(body) == Locate(body, 0)

(***************************************************************************)
(* Emitted statements (items of generated text)                            *)
(***************************************************************************)

\* const name = require("from");
ConstRequire(name, from) == [k |-> "constreq", name |-> name, from |-> from]

\* const name = require("from").prop;
ConstRequireProp(name, from, prop) ==
    [k |-> "constprop", name |-> name, from |-> from, prop |-> prop]

\* const { prop: local, ... } = require("from");
Destructure(pairs, from) == [k |-> "destructure", pairs |-> pairs, from |-> from]

\* require("from");
BareRequire(from) == [k |-> "req", from |-> from]

\* exports.prop = local;
ExportAssign(prop, local) == [k |-> "expassign", prop |-> prop, local |-> local]

\* exports.prop = alias.member;
ExportAssignMember(prop, alias, member) ==
    [k |-> "expmember", prop |-> prop, alias |-> alias, member |-> member]

\* exports.default = <text>;
ExportAssignText(prop, text) == [k |-> "exptext", prop |-> prop, text |-> text]

(***************************************************************************)
(* AST analyzer                                                            *)
(***************************************************************************)

RECURSIVE FlatMap(_, _)
FlatMap(F(_), seq) ==
    IF seq = <<>> THEN <<>> ELSE F(Head(seq)) \o FlatMap(F, Tail(seq))

Map(F(_), seq) == [i \in 1..Len(seq) |-> F(seq[i])]

Some(seq, P(_)) == \E i \in 1..Len(seq) : P(seq[i])

\* a replacement that would read every named import from the property of its
\* local name
buildImportReplacementByLocal(node, modulePath) ==
    LET defs == OfType(node.specifiers, "ImportDefaultSpecifier")
        nss  == OfType(node.specifiers, "ImportNamespaceSpecifier")
        named == OfType(node.specifiers, "ImportSpecifier")
        nsPart == IF nss # <<>> THEN <<ConstRequire(nss[Len(nss)].local, modulePath), NL>>
                  ELSE <<>>
        defPart == IF defs # <<>>
                   THEN <<ConstRequireProp(defs[Len(defs)].local, modulePath, DefaultName), NL>>
                   ELSE <<>>
        namedPart ==
            IF named # <<>>
            THEN <<Destructure(Map(LAMBDA sp : [prop |-> sp.local, local |-> sp.local], named),
                               modulePath), NL>>
            ELSE IF defs = <<>> /\ nss = <<>> THEN <<BareRequire(modulePath), NL>>
            ELSE <<>>
    IN  [replacement |-> Trim(nsPart \o defPart \o namedPart),
         importData |-> [default |-> IF defs # <<>> THEN defs[Len(defs)].local ELSE <<>>,
                         named |-> Map(LAMBDA sp : <<sp.imported, sp.local>>, named),
                         namespace |-> IF nss # <<>> THEN nss[Len(nss)].local ELSE <<>>]]

\* buildImportReplacement(node, modulePath)
buildImportReplacement(node, modulePath) ==
    LET defs == OfType(node.specifiers, "ImportDefaultSpecifier")
        nss  == OfType(node.specifiers, "ImportNamespaceSpecifier")
        namedImports ==
            Map(LAMBDA sp : [importedName |-> sp.imported, localName |-> sp.local,
                             needsIndividualRequire |-> sp.imported # sp.local],
                OfType(node.specifiers, "ImportSpecifier"))
        hasDefaultImport == defs # <<>>
        defaultImportName == IF hasDefaultImport THEN defs[Len(defs)].local ELSE <<>>
        hasNamespaceImport == nss # <<>>
        namespaceImportName == IF hasNamespaceImport THEN nss[Len(nss)].local ELSE <<>>
        someIndividual == Some(namedImports, LAMBDA imp : imp.needsIndividualRequire)
        nsPart == IF hasNamespaceImport
                  THEN <<ConstRequire(namespaceImportName, modulePath), NL>>
                  ELSE <<>>
        defPart == IF hasDefaultImport /\ (Len(namedImports) = 0 \/ someIndividual)
                   THEN <<ConstRequireProp(defaultImportName, modulePath, DefaultName), NL>>
                   ELSE <<>>
        canUseDestructuring == ~someIndividual
        names == Map(LAMBDA imp : [prop |-> imp.localName, local |-> imp.localName],
                     namedImports)
        destructuringNames ==
            IF hasDefaultImport /\ canUseDestructuring
            THEN <<[prop |-> DefaultName, local |-> defaultImportName]>> \o names
            ELSE names
        namedPart ==
            IF Len(namedImports) > 0
            THEN IF canUseDestructuring
                 THEN <<Destructure(destructuringNames, modulePath), NL>>
                 ELSE FlatMap(LAMBDA imp : <<ConstRequireProp(imp.localName, modulePath,
                                                              imp.importedName), NL>>,
                              namedImports)
            ELSE IF ~hasDefaultImport /\ ~hasNamespaceImport
            THEN <<BareRequire(modulePath), NL>>
            ELSE <<>>
        importData ==
            [default |-> defaultImportName,
             named |-> Map(LAMBDA i : <<i.importedName, i.localName>>, namedImports),
             namespace |-> namespaceImportName]
    IN  [replacement |-> Trim(nsPart \o defPart \o namedPart), importData |-> importData]

RECURSIVE ReplaceFirst(_, _, _)
\* String.prototype.replace(word, by): the first occurrence only
ReplaceFirst(t, from, by) ==
    IF t = <<>> THEN <<>>
    ELSE IF Head(t) = from THEN <<by>> \o Tail(t)
    ELSE <<Head(t)>> \o ReplaceFirst(Tail(t), from, by)

\* the call require("v") standing where a string literal stood
RequireCall(v) == [k |-> "reqcall", v |-> v]

\* originalText.replace('import', 'const').replace('from', '=')
\*   .replace(/['"]([^'"]+)['"]/g, 'require("$1")').replace(/;?$/, ';')
ExternalImportText(originalText) ==
    LET t1 == ReplaceFirst(originalText, Word("import"), Word("const"))
        t2 == ReplaceFirst(t1, Word("from"), Ch("="))
        t3 == Map(LAMBDA it : IF it.k = "str" /\ it.v # <<>> THEN RequireCall(it.v) ELSE it,
                  t2)
    IN  IF t3 # <<>> /\ t3[Len(t3)] = Ch(";") THEN t3 ELSE Append(t3, Ch(";"))

\* processExternalImport(node, content, transformations)
processExternalImport(ln, content, acc) ==
    LET originalText == Substring(content, ln.start, ln.end)
    IN  [acc EXCEPT !.transformations =
            Append(@, [start |-> ln.start, end |-> ln.end,
                       replacement |-> ExternalImportText(originalText)])]

\* processImport(node, content, filePath, dependencies, imports, transformations)
processImport(ln, content, filePath, acc) ==
    LET node == ln.node
        sourceValue == node.source.value
        acc1 == [acc EXCEPT !.dependencies = Append(@, sourceValue)]
    IN  IF ~isLocalModule(sourceValue) THEN processExternalImport(ln, content, acc1)
        ELSE LET absolutePath == resolveDependencyPath(filePath, sourceValue)
                 relativePath == RelativeKey(absolutePath)
                 built == buildImportReplacement(node, relativePath)
                 importInfo == [path |-> sourceValue, resolvedPath |-> relativePath,
                                default |-> built.importData.default,
                                named |-> built.importData.named,
                                namespace |-> built.importData.namespace]
             IN  [acc1 EXCEPT
                    !.imports = Append(@, importInfo),
                    !.transformations =
                        Append(@, [start |-> ln.start, end |-> ln.end,
                                   replacement |-> built.replacement])]

\* an edit that would measure the keyword from the end of the node
processExportDeclarationPastEnd(ln, acc) ==
    LET decl == ln.node.declaration
        acc1 == [acc EXCEPT !.transformations =
                    Append(@, [start |-> ln.start, end |-> ln.end + Len(ExportKw),
                               replacement |-> <<>>])]
        names ==
            IF decl.type = "VariableDeclaration"
            THEN Map(LAMBDA d : d.id.name,
                     SelectSeq(decl.declarations, LAMBDA d : d.id.type = "Identifier"))
            ELSE IF decl.type \in {"FunctionDeclaration", "ClassDeclaration"}
            THEN IF ~IsNull(decl.id) THEN <<decl.id.name>> ELSE <<>>
            ELSE <<>>
    IN  [acc1 EXCEPT
            !.exports.named = @ \o names,
            !.additionalExports = @ \o Map(LAMBDA nm : ExportAssign(nm, nm), names),
            !.processedExports = @ \cup {names[i] : i \in 1..Len(names)}]

\* processExportDeclaration(node, exports, transformations, additionalExports,
\* processedExports)
processExportDeclaration(ln, acc) ==
    LET decl == ln.node.declaration
        acc1 == [acc EXCEPT !.transformations =
                    Append(@, [start |-> ln.start, end |-> ln.start + Len(ExportKw),
                               replacement |-> <<>>])]
        names ==
            IF decl.type = "VariableDeclaration"
            THEN Map(LAMBDA d : d.id.name,
                     SelectSeq(decl.declarations, LAMBDA d : d.id.type = "Identifier"))
            ELSE IF decl.type \in {"FunctionDeclaration", "ClassDeclaration"}
            THEN IF ~IsNull(decl.id) THEN <<decl.id.name>> ELSE <<>>
            ELSE <<>>
    IN  [acc1 EXCEPT
            !.exports.named = @ \o names,
            !.additionalExports = @ \o Map(LAMBDA nm : ExportAssign(nm, nm), names),
            !.processedExports = @ \cup {names[i] : i \in 1..Len(names)}]

IdentChars ==
    {"a", "b", "c", "d", "e", "f", "g", "h", "i", "j", "k", "l", "m", "n", "o", "p", "q",
     "r", "s", "t", "u", "v", "w", "x", "y", "z",
     "A", "B", "C", "D", "E", "F", "G", "H", "I", "J", "K", "L", "M", "N", "O", "P", "Q",
     "R", "S", "T", "U", "V", "W", "X", "Y", "Z",
     "0", "1", "2", "3", "4", "5", "6", "7", "8", "9", "_"}

\* `_require_${source.replace(/[^a-zA-Z0-9_]/g, '_')}`
RequireVarName(source) ==
    <<"_", "r", "e", "q", "u", "i", "r", "e", "_">>
        \o [i \in 1..Len(source) |-> IF source[i] \in IdentChars THEN source[i] ELSE "_"]

\* processReExports(node, filePath, dependencies, exports, transformations)
processReExports(ln, filePath, acc) ==
    LET node == ln.node
        source == node.source.value
        absolutePath == resolveDependencyPath(filePath, source)
        relativePath == RelativeKey(absolutePath)
        requireVarName == RequireVarName(source)
        replacement ==
            <<ConstRequire(requireVarName, relativePath), NL>>
            \o FlatMap(LAMBDA sp : <<ExportAssignMember(sp.exported, requireVarName,
                                                        sp.local), NL>>,
                       node.specifiers)
    IN  [acc EXCEPT
            !.dependencies = Append(@, source),
            !.exports.named = @ \o Map(LAMBDA sp : sp.exported, node.specifiers),
            !.transformations =
                Append(@, [start |-> ln.start, end |-> ln.end,
                           replacement |-> Trim(replacement)])]

\* processExportSpecifiers(node, content, filePath, dependencies, exports,
\* transformations)
processExportSpecifiers(ln, filePath, acc) ==
    LET node == ln.node
    IN  IF ~IsNull(node.source) THEN processReExports(ln, filePath, acc)
        ELSE LET replacement ==
                     FlatMap(LAMBDA sp : <<ExportAssign(sp.exported, sp.local), NL>>,
                             node.specifiers)
             IN  [acc EXCEPT
                    !.exports.named = @ \o Map(LAMBDA sp : sp.exported, node.specifiers),
                    !.transformations =
                        Append(@, [start |-> ln.start, end |-> ln.end,
                                   replacement |-> Trim(replacement)])]

\* processNamedExport(node, content, filePath, dependencies, exports,
\* transformations, additionalExports, processedExports)
processNamedExport(ln, filePath, acc) ==
    IF ~IsNull(ln.node.declaration) THEN processExportDeclaration(ln, acc)
    ELSE IF Len(ln.node.specifiers) > 0 THEN processExportSpecifiers(ln, filePath, acc)
    ELSE acc

\* a processDefaultExport that would strip 'export default ' from a named
\* declaration and schedule no assignment for it
processDefaultExportUnassigned(ln, content, acc) ==
    LET decl == ln.node.declaration
        whole(repl) == [start |-> ln.start, end |-> ln.end, replacement |-> repl]
        declarationText == Substring(content, ln.declStart, ln.declEnd)
    IN  IF decl.type = "Identifier"
        THEN [acc EXCEPT
                !.exports.default = decl.name,
                !.transformations = Append(@, whole(<<ExportAssign(DefaultName, decl.name)>>))]
        ELSE IF decl.type \in {"FunctionDeclaration", "ClassDeclaration"} /\ ~IsNull(decl.id)
        THEN [acc EXCEPT
                !.exports.default = decl.id.name,
                !.transformations =
                    Append(@, [start |-> ln.start, end |-> ln.start + Len(ExportDefaultKw),
                               replacement |-> <<>>])]
        ELSE [acc EXCEPT
                !.transformations =
                    Append(@, whole(<<ExportAssignText(DefaultName, declarationText)>>))]

\* processDefaultExport(node, content, exports, transformations, additionalExports)
processDefaultExport(ln, content, acc) ==
    LET decl == ln.node.declaration
        whole(repl) == [start |-> ln.start, end |-> ln.end, replacement |-> repl]
        declarationText == Substring(content, ln.declStart, ln.declEnd)
    IN  IF decl.type = "Identifier"
        THEN [acc EXCEPT
                !.exports.default = decl.name,
                !.transformations = Append(@, whole(<<ExportAssign(DefaultName, decl.name)>>))]
        ELSE IF decl.type \in {"FunctionDeclaration", "ClassDeclaration"} /\ ~IsNull(decl.id)
        THEN [acc EXCEPT
                !.exports.default = decl.id.name,
                !.transformations =
                    Append(@, [start |-> ln.start, end |-> ln.start + Len(ExportDefaultKw),
                               replacement |-> <<>>]),
                !.additionalExports = Append(@, ExportAssign(DefaultName, decl.id.name))]
        ELSE [acc EXCEPT
                !.exports.default = <<"_", "d", "e", "f", "a", "u", "l", "t", "_", "e", "x", "p", "o",
                                      "r", "t", "_">>,
                !.transformations =
                    Append(@, whole(<<ExportAssignText(DefaultName, declarationText)>>))]

RECURSIVE WalkSimple(_, _, _, _)
\* walk.simple(ast, {ImportDeclaration, ExportNamedDeclaration,
\* ExportDefaultDeclaration}): the top-level nodes in source order
WalkSimple(lnodes, content, filePath, acc) ==
    IF lnodes = <<>> THEN acc
    ELSE LET ln == Head(lnodes)
             t == ln.node.type
             acc1 == IF t = "ImportDeclaration" THEN processImport(ln, content, filePath, acc)
                     ELSE IF t = "ExportNamedDeclaration"
                     THEN processNamedExport(ln, filePath, acc)
                     ELSE IF t = "ExportDefaultDeclaration"
                     THEN processDefaultExport(ln, content, acc)
                     ELSE acc
         IN  WalkSimple(Tail(lnodes), content, filePath, acc1)

\* analyzeModule(ast, content, filePath)
analyzeModule(ast, content, filePath) ==
    WalkSimple(ast, content, filePath,
               [dependencies |-> <<>>, imports |-> <<>>,
                exports |-> [named |-> <<>>, default |-> <<>>],
                transformations |-> <<>>, additionalExports |-> <<>>,
                processedExports |-> {}])

(***************************************************************************)
(* Module transformer                                                      *)
(***************************************************************************)

RECURSIVE InsertDesc(_, _)
\* e put into a list sorted by descending start, after the entries that
\* compare equal to it (Array.prototype.sort is stable)
InsertDesc(sorted, e) ==
    IF sorted = <<>> THEN <<e>>
    ELSE IF Head(sorted).start >= e.start THEN <<Head(sorted)>> \o InsertDesc(Tail(sorted), e)
    ELSE <<e>> \o sorted

\* a copy of the edits that would be left in the order the analyzer pushed
\* them
Unsorted(list, sorted) == sorted \o list

RECURSIVE SortDesc(_, _)
\* [...transformations].sort((a, b) => b.start - a.start)
SortDesc(list, sorted) ==
    IF list = <<>> THEN sorted
    ELSE SortDesc(Tail(list), InsertDesc(sorted, Head(list)))

RECURSIVE ApplyEdits(_, _)
\* substring(0, start) + replacement + substring(end), edit after edit
ApplyEdits(text, edits) ==
    IF edits = <<>> THEN text
    ELSE LET e == Head(edits)
         IN  ApplyEdits(Substring(text, 0, e.start) \o e.replacement
                            \o SubstringFrom(text, e.end),
                        Tail(edits))

RECURSIVE JoinLines(_)
\* additionalExports.join('\n')
JoinLines(lines) ==
    IF lines = <<>> THEN <<>>
    ELSE IF Len(lines) = 1 THEN <<Head(lines)>>
    ELSE <<Head(lines), NL>> \o JoinLines(Tail(lines))

\* the trailing export assignments of a module
AdditionalExports(module) ==
    module.additionalExports
        \o Map(LAMBDA exp : ExportAssign(exp, exp),
               SelectSeq(module.exports.named,
                         LAMBDA exp : exp \notin module.processedExports))

\* transformModuleContent between its two plugin phases: the edits in
\* descending start order, then the trailing export assignments
TransformText(module, text) ==
    LET edited == ApplyEdits(text, SortDesc(module.transformations, <<>>))
        additionalExports == AdditionalExports(module)
    IN  IF Len(additionalExports) > 0
        THEN edited \o <<NL>> \o JoinLines(additionalExports)
        ELSE edited

(***************************************************************************)
(* Plugin host                                                             *)
(***************************************************************************)

Phases == {"preTransform", "postTransform", "bundle"}

\* what a plugin hook that returns gives back: the text with the plugin's
\* mark, put in front by a bundle hook and at the end by a transform hook
Hook(plugin, phase, text) ==
    LET mark == [k |-> "comment", by |-> plugin.name, phase |-> phase]
    IN  IF phase = "bundle" THEN <<mark>> \o text ELSE Append(text, mark)

\* a loop that would jump to the last plugin with a hook for the phase
NextHookLast(plist, phase, k) ==
    LET later == {i \in (k + 1)..Len(plist) : phase \in plist[i].hooks}
    IN  IF later = {} THEN 0 ELSE CHOOSE i \in later : \A j \in later : i >= j

\* the first plugin after position k that has a hook for the phase, 0 if none
NextHook(plist, phase, k) ==
    LET later == {i \in (k + 1)..Len(plist) : phase \in plist[i].hooks}
    IN  IF later = {} THEN 0 ELSE CHOOSE i \in later : \A j \in later : i <= j

(***************************************************************************)
(* Bundle emitter                                                          *)
(***************************************************************************)

\* generateBundleRuntime(): the text that defines require and require.cache
generateBundleRuntime == <<[k |-> "runtime"]>>

\* "path": function(module, exports, require) { content },
ModuleEntry(path, content) == [k |-> "module", path |-> path, content |-> content]

\* require("path"); })();
EntryCall(path) == [k |-> "entry", path |-> path]

\* generateBundle() once every transform has completed
\* an assembly that would list the modules last discovered first
AssembleBundleReversed(mods, contents, entry) ==
    generateBundleRuntime
        \o [i \in 1..Len(mods) |->
                ModuleEntry(RelativeKey(mods[Len(mods) + 1 - i].filePath),
                            contents[Len(mods) + 1 - i])]
        \o <<EntryCall(RelativeKey(entry))>>

AssembleBundle(mods, contents, entry) ==
    generateBundleRuntime
        \o [i \in 1..Len(mods) |-> ModuleEntry(RelativeKey(mods[i].filePath), contents[i])]
        \o <<EntryCall(RelativeKey(entry))>>

(***************************************************************************)
(* State                                                                   *)
(***************************************************************************)

VARIABLES
    disk,        \* the file system: path -> [status, body]; other paths do not exist
    plugins,     \* this.plugins
    entryFile,   \* this.entryFile
    outputFile,  \* the outputFile argument of bundle()
    modules,     \* this.modules, a Map: its entries in insertion order
    moduleId,    \* this.moduleId
    stack,       \* the active calls of buildDependencyGraph, innermost last
    pc,          \* where bundle() is
    tasks,       \* the transform of each module entry started by generateBundle
    emit,        \* applyPlugins('bundle'): the pending plugin and the text so far
    written,     \* the contents written to the output file, in order
    result,      \* the promise bundle() returned
    readErrors,  \* the paths readModule threw on
    thrown,      \* the hooks that threw: plugin, phase and the value thrown
    firstSettled, \* the index of the transform that completed first, 0 before
    host,        \* the script host evaluating the written bundle: status and error
    table,       \* the bundle's modules object: key -> the statements of the function
    cache,       \* require.cache: module key -> the module's exports object
    scopes,      \* module key -> the bindings of the module function's scope
    frames,      \* the active require calls that are running a module function
    console,     \* what console.log has printed
    started,     \* the keys whose module function was called, in call order
    importNode,  \* an import declaration handed to buildImportReplacement
    importOut,   \* what buildImportReplacement returned for it
    config       \* the configuration object the caller holds

bundlerVars == <<disk, plugins, entryFile, outputFile, modules, moduleId, stack, pc, tasks,
                 emit, written, result, readErrors, thrown, firstSettled>>

hostVars == <<host, table, cache, scopes, frames, console, started>>

importVars == <<importNode, importOut>>

vars == <<bundlerVars, hostVars, importVars, config>>

(***************************************************************************)
(* Graph builder                                                           *)
(***************************************************************************)

\* this.modules.has(filePath)
Has(mods, filePath) == \E i \in 1..Len(mods) : mods[i].filePath = filePath

\* this.modules.get(filePath)
Get(mods, filePath) == mods[CHOOSE i \in 1..Len(mods) : mods[i].filePath = filePath]

\* fs.readFileSync and acorn.parse succeed on filePath
Readable(d, filePath) == filePath \in DOMAIN d /\ d[filePath].status = "ok"

\* readModule(filePath) where reading and parsing succeed
readModule(d, filePath, id) ==
    LET content == Unparse(d[filePath].body)
        ast == Parse(d[filePath].body)
        moduleInfo == analyzeModule(ast, content, filePath)
    IN  [id |-> id, filePath |-> filePath, content |-> content,
         dependencies |-> moduleInfo.dependencies, imports |-> moduleInfo.imports,
         exports |-> moduleInfo.exports, transformations |-> moduleInfo.transformations,
         additionalExports |-> moduleInfo.additionalExports,
         processedExports |-> moduleInfo.processedExports]

\* the error fs.readFileSync or acorn.parse throws
ReadError(d, filePath) ==
    IF filePath \in DOMAIN d THEN [type |-> "SyntaxError", path |-> filePath]
    ELSE [type |-> "ENOENT", path |-> filePath]

Frame(filePath) == [filePath |-> filePath, state |-> "enter", i |-> 1]

Top == stack[Len(stack)]

Pop(st) == SubSeq(st, 1, Len(st) - 1)

\* bundle(outputFile) is called: buildDependencyGraph(this.entryFile) begins
StartBundle ==
    /\ pc = "init"
    /\ pc' = "graph"
    /\ stack' = <<Frame(entryFile)>>
    /\ UNCHANGED <<disk, plugins, entryFile, outputFile, modules, moduleId, tasks, emit,
                   written, result, readErrors, thrown>>
    /\ UNCHANGED <<hostVars, importVars, config, firstSettled>>

\* buildDependencyGraph(filePath) up to the loop: the module is read, analyzed
\* and stored
VisitModule ==
    /\ pc = "graph" /\ stack # <<>> /\ Top.state = "enter"
    /\ Has(modules, Top.filePath) \/ Readable(disk, Top.filePath)
    /\ IF Has(modules, Top.filePath)
       THEN /\ stack' = Pop(stack)
            /\ UNCHANGED <<modules, moduleId>>
       ELSE /\ modules' = Append(modules, readModule(disk, Top.filePath, moduleId))
            /\ moduleId' = moduleId + 1
            /\ stack' = [stack EXCEPT ![Len(stack)].state = "loop"]
    /\ UNCHANGED <<disk, plugins, entryFile, outputFile, pc, tasks, emit, written, result,
                   readErrors, thrown>>
    /\ UNCHANGED <<hostVars, importVars, config, firstSettled>>

\* what a throw out of buildDependencyGraph(filePath) does: the innermost
\* caller's catch around the recursive call takes it and the caller's loop
\* goes on; with no caller the error leaves bundle()
GraphThrow(st, err) ==
    IF Len(st) > 1
    THEN [stack |-> Pop(st), pc |-> "graph", result |-> [status |-> "pending"]]
    ELSE [stack |-> <<>>, pc |-> "failed", result |-> [status |-> "rejected", error |-> err]]

\* a failed read that would use up an id
VisitFailsTakingId ==
    /\ pc = "graph" /\ stack # <<>> /\ Top.state = "enter"
    /\ ~Has(modules, Top.filePath) /\ ~Readable(disk, Top.filePath)
    /\ LET after == GraphThrow(stack, ReadError(disk, Top.filePath))
       IN  /\ stack' = after.stack
           /\ pc' = after.pc
           /\ result' = after.result
    /\ moduleId' = moduleId + 1
    /\ readErrors' = readErrors \cup {Top.filePath}
    /\ UNCHANGED <<disk, plugins, entryFile, outputFile, modules, tasks, emit,
                   written, thrown>>
    /\ UNCHANGED <<hostVars, importVars, config, firstSettled>>

\* readModule throws: the catch of buildDependencyGraph logs and rethrows
VisitFails ==
    /\ pc = "graph" /\ stack # <<>> /\ Top.state = "enter"
    /\ ~Has(modules, Top.filePath) /\ ~Readable(disk, Top.filePath)
    /\ LET after == GraphThrow(stack, ReadError(disk, Top.filePath))
       IN  /\ stack' = after.stack
           /\ pc' = after.pc
           /\ result' = after.result
    /\ readErrors' = readErrors \cup {Top.filePath}
    /\ UNCHANGED <<disk, plugins, entryFile, outputFile, modules, moduleId, tasks, emit,
                   written, thrown>>
    /\ UNCHANGED <<hostVars, importVars, config, firstSettled>>

\* one round of the loop over module.dependencies
FollowDependency ==
    /\ pc = "graph" /\ stack # <<>> /\ Top.state = "loop"
    /\ LET module == Get(modules, Top.filePath)
           dependency == module.dependencies[Top.i]
           absolutePath == resolveDependencyPath(Top.filePath, dependency)
           next == [stack EXCEPT ![Len(stack)].i = @ + 1]
       IN  /\ Top.i <= Len(module.dependencies)
           /\ stack' = IF dependency = <<>> \/ ~isLocalModule(dependency) THEN next
                       ELSE IF ~Has(modules, absolutePath)
                       THEN Append(next, Frame(absolutePath))
                       ELSE next
    /\ UNCHANGED <<disk, plugins, entryFile, outputFile, modules, moduleId, pc, tasks, emit,
                   written, result, readErrors, thrown>>
    /\ UNCHANGED <<hostVars, importVars, config, firstSettled>>

\* a loop that would start over instead of returning
ReturnFromModuleAgain ==
    /\ pc = "graph" /\ stack # <<>> /\ Top.state = "loop"
    /\ Top.i > Len(Get(modules, Top.filePath).dependencies)
    /\ stack' = [stack EXCEPT ![Len(stack)].i = 1]
    /\ UNCHANGED <<disk, plugins, entryFile, outputFile, modules, moduleId, pc, tasks, emit,
                   written, result, readErrors, thrown>>
    /\ UNCHANGED <<hostVars, importVars, config, firstSettled>>

\* the loop is over: buildDependencyGraph(filePath) returns
ReturnFromModule ==
    /\ pc = "graph" /\ stack # <<>> /\ Top.state = "loop"
    /\ Top.i > Len(Get(modules, Top.filePath).dependencies)
    /\ stack' = Pop(stack)
    /\ UNCHANGED <<disk, plugins, entryFile, outputFile, modules, moduleId, pc, tasks, emit,
                   written, result, readErrors, thrown>>
    /\ UNCHANGED <<hostVars, importVars, config, firstSettled>>

(***************************************************************************)
(* generateBundle and the transforms it starts                             *)
(***************************************************************************)

\* applyPlugins('postTransform', text, module) from plugin k on, up to the
\* next hook it has to wait for
RunPost(plist, text, k) ==
    LET next == NextHook(plist, "postTransform", k)
    IN  IF next = 0 THEN [phase |-> "done", k |-> 0, text |-> text]
        ELSE [phase |-> "postTransform", k |-> next, text |-> text]

\* a transform that would apply the edits before the first preTransform hook
RunPreEditsFirst(plist, module, text, k) ==
    LET next == NextHook(plist, "preTransform", k)
        edited == IF k = 0 THEN TransformText(module, text) ELSE text
    IN  IF next = 0 THEN RunPost(plist, edited, 0)
        ELSE [phase |-> "preTransform", k |-> next, text |-> edited]

\* transformModuleContent(module) from plugin k of applyPlugins('preTransform')
\* on, up to the next hook it has to wait for
RunPre(plist, module, text, k) ==
    LET next == NextHook(plist, "preTransform", k)
    IN  IF next = 0 THEN RunPost(plist, TransformText(module, text), 0)
        ELSE [phase |-> "preTransform", k |-> next, text |-> text]

\* generateBundle() up to its await: moduleEntries.map starts every transform
StartTransforms ==
    /\ pc = "graph" /\ stack = <<>>
    /\ pc' = "transform"
    /\ tasks' = [i \in 1..Len(modules) |-> RunPre(plugins, modules[i], modules[i].content, 0)]
    /\ UNCHANGED <<disk, plugins, entryFile, outputFile, modules, moduleId, stack, emit,
                   written, result, readErrors, thrown>>
    /\ firstSettled' = IF tasks' # <<>> /\ tasks'[1].phase = "done" THEN 1 ELSE 0
    /\ UNCHANGED <<hostVars, importVars, config>>

Waiting(task) == task.phase \in {"preTransform", "postTransform"}

\* the hook a transform waits for returns (or its promise resolves)
HookReturns(i) ==
    /\ pc \in {"transform", "failed"}
    /\ Waiting(tasks[i])
    /\ LET t == tasks[i]
           out == Hook(plugins[t.k], t.phase, t.text)
       IN  tasks' = [tasks EXCEPT ![i] =
                        IF t.phase = "preTransform" THEN RunPre(plugins, modules[i], out, t.k)
                        ELSE RunPost(plugins, out, t.k)]
    /\ UNCHANGED <<disk, plugins, entryFile, outputFile, modules, moduleId, stack, pc, emit,
                   written, result, readErrors, thrown>>
    /\ firstSettled' = IF firstSettled = 0 /\ tasks'[i].phase = "done" THEN i
                       ELSE firstSettled
    /\ UNCHANGED <<hostVars, importVars, config>>

\* the value a hook throws: an error object of its own, the n-th thrown
ThrownValue(n) == [type |-> "Error", id |-> n]

\* the hook a transform waits for throws (or its promise rejects): the
\* transform rejects, and Promise.all rejects with the first such error
HookThrows(i) ==
    /\ pc \in {"transform", "failed"}
    /\ Waiting(tasks[i])
    /\ tasks' = [tasks EXCEPT ![i] = [phase |-> "failed", k |-> @.k, text |-> @.text]]
    /\ thrown' = Append(thrown, [plugin |-> plugins[tasks[i].k].name,
                                 phase |-> tasks[i].phase,
                                 error |-> ThrownValue(Len(thrown) + 1)])
    /\ IF pc = "transform"
       THEN /\ pc' = "failed"
            /\ result' = [status |-> "rejected", error |-> ThrownValue(Len(thrown) + 1)]
       ELSE UNCHANGED <<pc, result>>
    /\ UNCHANGED <<disk, plugins, entryFile, outputFile, modules, moduleId, stack, emit,
                   written, readErrors>>
    /\ UNCHANGED <<hostVars, importVars, config, firstSettled>>

\* applyPlugins('bundle', text) from plugin k on, up to the next hook
RunBundle(plist, text, k) == [k |-> NextHook(plist, "bundle", k), text |-> text]

\* a generateBundle() that would assemble the bundle as soon as one transform
\* has completed, with whatever text the others have reached
FinishGenerateBundleEarly ==
    /\ pc = "transform"
    /\ \E i \in 1..Len(tasks) : tasks[i].phase = "done"
    /\ emit' = RunBundle(plugins,
                         AssembleBundle(modules, [i \in 1..Len(tasks) |-> tasks[i].text],
                                        entryFile),
                         0)
    /\ pc' = "bundle"
    /\ UNCHANGED <<disk, plugins, entryFile, outputFile, modules, moduleId, stack, tasks,
                   written, result, readErrors, thrown>>
    /\ UNCHANGED <<hostVars, importVars, config, firstSettled>>

\* every transform has completed: generateBundle() assembles the bundle and
\* bundle() goes on to applyPlugins('bundle', bundleContent)
FinishGenerateBundle ==
    /\ pc = "transform"
    /\ \A i \in 1..Len(tasks) : tasks[i].phase = "done"
    /\ emit' = RunBundle(plugins,
                         AssembleBundle(modules, [i \in 1..Len(tasks) |-> tasks[i].text],
                                        entryFile),
                         0)
    /\ pc' = "bundle"
    /\ UNCHANGED <<disk, plugins, entryFile, outputFile, modules, moduleId, stack, tasks,
                   written, result, readErrors, thrown>>
    /\ UNCHANGED <<hostVars, importVars, config, firstSettled>>

\* the bundle hook bundle() waits for returns
BundleHookReturns ==
    /\ pc = "bundle" /\ emit.k # 0
    /\ emit' = RunBundle(plugins, Hook(plugins[emit.k], "bundle", emit.text), emit.k)
    /\ UNCHANGED <<disk, plugins, entryFile, outputFile, modules, moduleId, stack, pc, tasks,
                   written, result, readErrors, thrown>>
    /\ UNCHANGED <<hostVars, importVars, config, firstSettled>>

\* the bundle hook bundle() waits for throws
BundleHookThrows ==
    /\ pc = "bundle" /\ emit.k # 0
    /\ pc' = "failed"
    /\ result' = [status |-> "rejected", error |-> ThrownValue(Len(thrown) + 1)]
    /\ thrown' = Append(thrown, [plugin |-> plugins[emit.k].name, phase |-> "bundle",
                                 error |-> ThrownValue(Len(thrown) + 1)])
    /\ UNCHANGED <<disk, plugins, entryFile, outputFile, modules, moduleId, stack, tasks,
                   emit, written, readErrors>>
    /\ UNCHANGED <<hostVars, importVars, config, firstSettled>>

\* a bundle() that would write without awaiting applyPlugins('bundle')
WriteOutputEarly ==
    /\ pc = "bundle"
    /\ written' = IF outputFile # <<>> THEN Append(written, emit.text) ELSE written
    /\ result' = [status |-> "resolved", value |-> emit.text]
    /\ pc' = "done"
    /\ UNCHANGED <<disk, plugins, entryFile, outputFile, modules, moduleId, stack, tasks,
                   emit, readErrors, thrown>>
    /\ UNCHANGED <<hostVars, importVars, config, firstSettled>>

\* applyPlugins('bundle') has returned: the output file is written if one was
\* given, and bundle() returns the final content
WriteOutput ==
    /\ pc = "bundle" /\ emit.k = 0
    /\ written' = IF outputFile # <<>> THEN Append(written, emit.text) ELSE written
    /\ result' = [status |-> "resolved", value |-> emit.text]
    /\ pc' = "done"
    /\ UNCHANGED <<disk, plugins, entryFile, outputFile, modules, moduleId, stack, tasks,
                   emit, readErrors, thrown>>
    /\ UNCHANGED <<hostVars, importVars, config, firstSettled>>

(***************************************************************************)
(* The emitted bundle, evaluated by a script host                          *)
(***************************************************************************)

\* the deepest nesting of require calls the host's call stack holds
MaxStack == 5

StatementKinds ==
    {"constreq", "constprop", "destructure", "req", "expassign", "expmember", "exptext"}

\* a call of require inside a try whose catch logs the error
TryStatement(from) == [k |-> "tryreq", from |-> from]

Invalid == [k |-> "invalid"]

NoOp == [k |-> "noop"]

Spaceless(run) == SelectSeq(run, LAMBDA it : ~IsSpace(it))

\* a run of tokens read as one statement: const d = require("S");  or
\* const { a, b } = require("S");  anything else is a syntax error
ParseTokens(run) ==
    LET t == Spaceless(run)
        n == Len(t)
        inner == SubSeq(t, 3, n - 3)
    IN  IF n = 4 /\ t[1] = Word("const") /\ t[2].k = "id" /\ t[3] = Ch("=")
           /\ t[4].k = "reqcall"
        THEN ConstRequire(t[2].name, t[4].v)
        ELSE IF n >= 5 /\ t[1] = Word("const") /\ t[2] = Ch("{") /\ t[n - 2] = Ch("}")
                /\ t[n - 1] = Ch("=") /\ t[n].k = "reqcall"
                /\ \A i \in 1..Len(inner) :
                        IF i % 2 = 1 THEN inner[i].k = "id" ELSE inner[i] = Ch(",")
        THEN Destructure(Map(LAMBDA it : [prop |-> it.name, local |-> it.name],
                             SelectSeq(inner, LAMBDA it : it.k = "id")),
                         t[n].v)
        ELSE Invalid

\* an untouched source node read as a statement of a function body
SourceStatement(item) ==
    IF item.node.type \in {"VariableDeclaration", "FunctionDeclaration", "ClassDeclaration"}
    THEN IF item.node.type = "VariableDeclaration" \/ ~IsNull(item.node.id)
         THEN item ELSE Invalid
    ELSE IF item.node.type \in {"Log", "ThrowStatement"} THEN item
    ELSE IF item.node.type = "TryStatement" THEN TryStatement(item.node.key)
    ELSE IF item.node.type \in {"ImportDeclaration", "ExportNamedDeclaration",
                                "ExportDefaultDeclaration", "ExportAllDeclaration"}
    THEN Invalid
    ELSE NoOp

Flush(run) == IF run = <<>> THEN <<>> ELSE <<ParseTokens(run)>>

RECURSIVE ScanBody(_, _, _)
\* the statements of a function body, as the host's parser reads its text
ScanBody(content, i, run) ==
    IF i > Len(content) THEN Flush(run)
    ELSE LET it == content[i]
         IN  IF it.k = "comment" \/ IsSpace(it) THEN ScanBody(content, i + 1, run)
             ELSE IF it = Ch(";") THEN Flush(run) \o ScanBody(content, i + 1, <<>>)
             ELSE IF it.k \in StatementKinds
             THEN Flush(run) \o <<it>> \o ScanBody(content, i + 1, <<>>)
             ELSE IF it.k = "src"
             THEN Flush(run) \o <<SourceStatement(it)>> \o ScanBody(content, i + 1, <<>>)
             ELSE ScanBody(content, i + 1, Append(run, it))

Statements(content) == ScanBody(content, 1, <<>>)

\* the names a statement declares with const, let or class
LexicalNames(st) ==
    IF st.k \in {"constreq", "constprop"} THEN <<st.name>>
    ELSE IF st.k = "destructure" THEN Map(LAMBDA pr : pr.local, st.pairs)
    ELSE IF st.k = "src" /\ st.node.type = "VariableDeclaration" /\ st.node.kind # "var"
    THEN Map(LAMBDA d : d.id.name,
             SelectSeq(st.node.declarations, LAMBDA d : d.id.type = "Identifier"))
    ELSE IF st.k = "src" /\ st.node.type = "ClassDeclaration" THEN <<st.node.id.name>>
    ELSE <<>>

\* the function declarations of a body: their names are bound before it runs
HoistedNames(stmts) ==
    {stmts[i].node.id.name :
        i \in {j \in 1..Len(stmts) :
                stmts[j].k = "src" /\ stmts[j].node.type = "FunctionDeclaration"}}

\* a body the host's parser accepts
WellFormed(stmts) ==
    LET names == FlatMap(LexicalNames, stmts)
    IN  /\ \A i \in 1..Len(stmts) : stmts[i] # Invalid
        /\ \A i, j \in 1..Len(names) : i # j => names[i] # names[j]
        /\ \A i \in 1..Len(names) : names[i] \notin HoistedNames(stmts)

\* the modules object of a bundle text
ModuleTable(bundleText) ==
    LET entries == SelectSeq(bundleText, LAMBDA it : it.k = "module")
    IN  [key \in {entries[i].path : i \in 1..Len(entries)} |->
            Statements(entries[CHOOSE i \in 1..Len(entries) :
                                  /\ entries[i].path = key
                                  /\ \A j \in (i + 1)..Len(entries) : entries[j].path # key]
                           .content)]

\* the key of the require call that ends a bundle text
EntryKey(bundleText) == SelectSeq(bundleText, LAMBDA it : it.k = "entry")[1].path

Undefined == [t |-> "undefined"]

Number(v) == [t |-> "num", v |-> v]

Failure(type, what) == [t |-> "error", type |-> type, what |-> what]

IsFailure(v) == v.t = "error"

Put(f, key, v) == [x \in DOMAIN f \cup {key} |-> IF x = key THEN v ELSE f[x]]

\* obj[prop] for a value obj
GetProp(obj, prop, ca) ==
    IF IsFailure(obj) THEN obj
    ELSE IF obj.t = "undefined" THEN Failure("TypeError", prop)
    ELSE IF obj.t = "obj" /\ prop \in DOMAIN ca[obj.ref] THEN ca[obj.ref][prop]
    ELSE Undefined

RECURSIVE Eval(_, _, _, _)
\* the value of expression e in the scope of module key
Eval(e, key, sc, ca) ==
    IF e.type = "Num" THEN Number(e.v)
    ELSE IF e.type = "Identifier"
    THEN IF e.name \in DOMAIN sc[key] THEN sc[key][e.name]
         ELSE Failure("ReferenceError", e.name)
    ELSE IF e.type = "ArrowFunctionExpression"
    THEN [t |-> "closure", scope |-> key, body |-> e.body]
    ELSE IF e.type = "CallExpression"
    THEN LET f == Eval(e.callee, key, sc, ca)
         IN  IF IsFailure(f) THEN f
             ELSE IF f.t = "closure" THEN Eval(f.body, f.scope, sc, ca)
             ELSE IF f.t = "fn" THEN Undefined
             ELSE Failure("TypeError", <<>>)
    ELSE IF e.type = "MemberExpression"
    THEN GetProp(Eval(e.object, key, sc, ca), e.property, ca)
    ELSE IF e.type = "BinaryExpression"
    THEN LET l == Eval(e.left, key, sc, ca)
             r == Eval(e.right, key, sc, ca)
         IN  IF IsFailure(l) THEN l
             ELSE IF IsFailure(r) THEN r
             ELSE IF l.t = "num" /\ r.t = "num" THEN Number(l.v + r.v)
             ELSE [t |-> "nan"]
    ELSE IF e.type \in {"FunctionDeclaration", "ClassDeclaration"}
    THEN [t |-> "fn", scope |-> key, name |-> IF IsNull(e.id) THEN <<>> ELSE e.id.name]
    ELSE Undefined

RECURSIVE Declare(_, _, _, _)
\* the declarators of const/let/var, left to right: the scope after them, or
\* the failure of an initializer
Declare(decls, key, sc, ca) ==
    IF decls = <<>> THEN sc
    ELSE LET d == Head(decls)
             v == IF IsNull(d.init) THEN Undefined ELSE Eval(d.init, key, sc, ca)
         IN  IF d.id.type # "Identifier" THEN Declare(Tail(decls), key, sc, ca)
             ELSE IF IsFailure(v) THEN v
             ELSE Declare(Tail(decls), key, [sc EXCEPT ![key] = Put(@, d.id.name, v)], ca)

RECURSIVE BindPairs(_, _, _)
BindPairs(pairs, obj, scope) ==
    IF pairs = <<>> THEN scope
    ELSE BindPairs(Tail(pairs), obj,
                   Put(scope, Head(pairs).local,
                       IF Head(pairs).prop \in DOMAIN obj THEN obj[Head(pairs).prop]
                       ELSE Undefined))

\* a statement that calls require: what it binds once require has returned
\* the exports object of st.from
BindRequire(st, key, sc, ca) ==
    LET obj == ca[st.from]
    IN  IF st.k = "constreq" THEN [sc EXCEPT ![key] = Put(@, st.name, [t |-> "obj", ref |-> st.from])]
        ELSE IF st.k = "constprop"
        THEN [sc EXCEPT ![key] = Put(@, st.name,
                                     IF st.prop \in DOMAIN obj THEN obj[st.prop] ELSE Undefined)]
        ELSE IF st.k = "destructure" THEN [sc EXCEPT ![key] = BindPairs(st.pairs, obj, @)]
        ELSE sc

CallsRequire(st) == st.k \in {"constreq", "constprop", "destructure", "req", "tryreq"}

\* the value an exports assignment stores, or a failure
AssignedValue(st, key, sc, ca) ==
    IF st.k = "expassign" THEN Eval(Identifier(st.local), key, sc, ca)
    ELSE IF st.k = "expmember"
    THEN GetProp(Eval(Identifier(st.alias), key, sc, ca), st.member, ca)
    ELSE IF Len(st.text) = 1 /\ st.text[1].k = "src" THEN Eval(st.text[1].node, key, sc, ca)
    ELSE Failure("SyntaxError", <<>>)

\* the effect of a statement that does not call require: the scopes, the
\* cache and the console after it, or its failure
Effect(st, key, sc, ca, out) ==
    LET same == [ok |-> TRUE, scopes |-> sc, cache |-> ca, console |-> out]
        fail(v) == [ok |-> FALSE, error |-> v]
    IN  IF st.k \in {"expassign", "expmember", "exptext"}
        THEN LET v == AssignedValue(st, key, sc, ca)
             IN  IF IsFailure(v) THEN fail(v)
                 ELSE [same EXCEPT !.cache = [ca EXCEPT ![key] = Put(@, st.prop, v)]]
        ELSE IF st.k = "src" /\ st.node.type = "VariableDeclaration"
        THEN LET after == Declare(st.node.declarations, key, sc, ca)
             IN  IF DOMAIN after = {"t", "type", "what"} THEN fail(after)
                 ELSE [same EXCEPT !.scopes = after]
        ELSE IF st.k = "src" /\ st.node.type = "ClassDeclaration"
        THEN [same EXCEPT !.scopes =
                [sc EXCEPT ![key] = Put(@, st.node.id.name, Eval(st.node, key, sc, ca))]]
        ELSE IF st.k = "src" /\ st.node.type = "Log"
        THEN LET v == Eval(st.node.argument, key, sc, ca)
             IN  IF IsFailure(v) THEN fail(v) ELSE [same EXCEPT !.console = Append(out, v)]
        ELSE IF st.k = "src" /\ st.node.type = "ThrowStatement"
        THEN fail(Failure("Error", <<"thrown">>))
        ELSE same

\* the scope of a module function as its body starts: the hoisted functions
InitialScope(key, stmts) ==
    [nm \in HoistedNames(stmts) |-> [t |-> "fn", scope |-> key, name |-> nm]]

HostInit ==
    /\ host = [status |-> "idle"]
    /\ table = <<>>
    /\ cache = <<>>
    /\ scopes = <<>>
    /\ frames = <<>>
    /\ console = <<>>
    /\ started = <<>>

\* the innermost active call that was made inside a try, 0 if there is none
Catcher(tbl, fr) ==
    LET inTry == {j \in 1..Len(fr) : /\ fr[j].ip <= Len(tbl[fr[j].key])
                                      /\ tbl[fr[j].key][fr[j].ip].k = "tryreq"}
    IN  IF inTry = {} THEN 0 ELSE CHOOSE j \in inTry : \A i \in inTry : j >= i

\* a runtime that would take the modules whose bodies are left by an error
\* out of the cache
RaiseDroppingCache(error, tbl, ca, fr, out) ==
    LET j == Catcher(tbl, fr)
        kept == DOMAIN ca \ {fr[i].key : i \in (j + 1)..Len(fr)}
    IN  IF j = 0
        THEN [cache |-> [key \in kept |-> ca[key]], frames |-> <<>>, console |-> out,
              host |-> [status |-> "threw", error |-> error]]
        ELSE [cache |-> [key \in kept |-> ca[key]],
              frames |-> [SubSeq(fr, 1, j) EXCEPT ![j].ip = @ + 1],
              console |-> Append(out, error), host |-> [status |-> "running"]]

\* an error is thrown while the calls of fr are active: require and the
\* module functions catch nothing and the cache keeps its entries, so the
\* error leaves every call up to the innermost one made inside a try, whose
\* catch logs it; with no such call it leaves the bundle
Raise(error, tbl, ca, fr, out) ==
    LET j == Catcher(tbl, fr)
    IN  IF j = 0
        THEN [cache |-> ca, frames |-> <<>>, console |-> out,
              host |-> [status |-> "threw", error |-> error]]
        ELSE [cache |-> ca, frames |-> [SubSeq(fr, 1, j) EXCEPT ![j].ip = @ + 1],
              console |-> Append(out, error), host |-> [status |-> "running"]]

\* require(moduleId) on a module that is not in the cache: the new module
\* object is stored, then the module function is looked up and called
requireMiss(requested, tbl, ca, sc, fr, out) ==
    LET stored == Put(ca, requested, <<>>)
        raised(error) ==
            LET after == Raise(error, tbl, stored, fr, out)
            IN  [cache |-> after.cache, scopes |-> sc, frames |-> after.frames,
                 host |-> after.host, console |-> after.console, called |-> <<>>]
    IN  IF requested \notin DOMAIN tbl
        THEN raised(Failure("Error", <<"Module not found", requested>>))
        ELSE IF Len(fr) >= MaxStack THEN raised(Failure("RangeError", <<>>))
        ELSE [cache |-> stored,
              scopes |-> Put(sc, requested, InitialScope(requested, tbl[requested])),
              frames |-> Append(fr, [key |-> requested, ip |-> 1]),
              host |-> [status |-> "running"], console |-> out,
              called |-> <<requested>>]

\* the written bundle is given to the host, whose parser rejects it
HostRejects ==
    /\ pc = "done" /\ written # <<>> /\ host.status = "idle"
    /\ LET tbl == ModuleTable(written[1])
       IN  /\ \E key \in DOMAIN tbl : ~WellFormed(tbl[key])
           /\ host' = [status |-> "threw", error |-> Failure("SyntaxError", <<>>)]
    /\ UNCHANGED <<table, cache, scopes, frames, console, started>>
    /\ UNCHANGED <<bundlerVars, importVars, config>>

\* the written bundle is given to the host: the runtime is set up with an
\* empty cache and the entry is required
HostStarts ==
    /\ pc = "done" /\ written # <<>> /\ host.status = "idle"
    /\ LET tbl == ModuleTable(written[1])
           after == requireMiss(EntryKey(written[1]), tbl, <<>>, <<>>, <<>>, <<>>)
       IN  /\ \A key \in DOMAIN tbl : WellFormed(tbl[key])
           /\ table' = tbl
           /\ cache' = after.cache
           /\ scopes' = after.scopes
           /\ frames' = after.frames
           /\ host' = after.host
           /\ console' = after.console
           /\ started' = after.called
    /\ UNCHANGED <<bundlerVars, importVars, config>>

Running == host.status = "running" /\ frames # <<>>

\* a runtime that would publish a module's exports only after its body ran:
\* a key whose body is still running is not found in the cache
CachedOnceLoaded(ca, key) ==
    key \in DOMAIN ca /\ \A i \in 1..Len(frames) : frames[i].key # key

\* if (require.cache[moduleId])
Cached(ca, key) == key \in DOMAIN ca

Current == frames[Len(frames)]

AtStatement == Running /\ Current.ip <= Len(table[Current.key])

Statement == table[Current.key][Current.ip]

Advance(fr) == [fr EXCEPT ![Len(fr)].ip = @ + 1]

\* a statement calls require(key) and the module is in the cache: its
\* exports object is returned at once
RequireCached ==
    /\ AtStatement /\ CallsRequire(Statement)
    /\ Cached(cache, Statement.from)
    /\ scopes' = BindRequire(Statement, Current.key, scopes, cache)
    /\ frames' = Advance(frames)
    /\ UNCHANGED <<host, table, cache, console, started>>
    /\ UNCHANGED <<bundlerVars, importVars, config>>

\* a statement calls require(key) and the module is not in the cache
RequireLoads ==
    /\ AtStatement /\ CallsRequire(Statement)
    /\ ~Cached(cache, Statement.from)
    /\ LET after == requireMiss(Statement.from, table, cache, scopes, frames, console)
       IN  /\ cache' = after.cache
           /\ scopes' = after.scopes
           /\ frames' = after.frames
           /\ host' = after.host
           /\ console' = after.console
           /\ started' = started \o after.called
    /\ UNCHANGED table
    /\ UNCHANGED <<bundlerVars, importVars, config>>

\* a module function has run to its end: require returns module.exports to
\* the statement that called it, or to the host
RequireReturns ==
    /\ Running /\ Current.ip > Len(table[Current.key])
    /\ LET rest == Pop(frames)
       IN  IF rest = <<>>
           THEN /\ frames' = <<>>
                /\ host' = [status |-> "finished"]
                /\ UNCHANGED scopes
           ELSE /\ frames' = Advance(rest)
                /\ scopes' = BindRequire(table[rest[Len(rest)].key][rest[Len(rest)].ip],
                                         rest[Len(rest)].key, scopes, cache)
                /\ UNCHANGED host
    /\ UNCHANGED <<table, cache, console, started>>
    /\ UNCHANGED <<bundlerVars, importVars, config>>

\* a statement that does not call require runs
StatementRuns ==
    /\ AtStatement /\ ~CallsRequire(Statement)
    /\ LET eff == Effect(Statement, Current.key, scopes, cache, console)
       IN  /\ eff.ok
           /\ scopes' = eff.scopes
           /\ cache' = eff.cache
           /\ console' = eff.console
    /\ frames' = Advance(frames)
    /\ UNCHANGED <<host, table, started>>
    /\ UNCHANGED <<bundlerVars, importVars, config>>

\* a statement throws
StatementThrows ==
    /\ AtStatement /\ ~CallsRequire(Statement)
    /\ LET eff == Effect(Statement, Current.key, scopes, cache, console)
       IN  /\ ~eff.ok
           /\ LET after == Raise(eff.error, table, cache, frames, console)
              IN  /\ host' = after.host
                  /\ frames' = after.frames
                  /\ console' = after.console
                  /\ cache' = after.cache
    /\ UNCHANGED <<table, scopes, started>>
    /\ UNCHANGED <<bundlerVars, importVars, config>>

Next ==
    \/ StartBundle
    \/ VisitModule
    \/ VisitFails
    \/ FollowDependency
    \/ ReturnFromModule
    \/ StartTransforms
    \/ \E i \in 1..Len(tasks) : HookReturns(i)
    \/ \E i \in 1..Len(tasks) : HookThrows(i)
    \/ FinishGenerateBundle
    \/ BundleHookReturns
    \/ BundleHookThrows
    \/ WriteOutput

(***************************************************************************)
(* Projects and plugin lists                                               *)
(***************************************************************************)

MaxPlugins == 2

Nx == <<"x">>

IndexJs == <<"/", "w", "/", "s", "r", "c", "/", "i", "n", "d", "e", "x", ".", "j", "s">>

AJs == <<"/", "w", "/", "s", "r", "c", "/", "a", ".", "j", "s">>

LibBJs == <<"/", "w", "/", "s", "r", "c", "/", "l", "i", "b", "/", "b", ".", "j", "s">>

OutputJs == <<"/", "w", "/", "d", "i", "s", "t", "/", "b", "u", "n", "d", "l", "e", ".", "j", "s">>

\* import { x } from './a.js';  import 'pkg';
IndexBody ==
    <<ImportDeclaration(<<ImportSpecifier(Nx, Nx)>>, <<".", "/", "a", ".", "j", "s">>),
      ImportDeclaration(<<>>, <<"p", "k", "g">>)>>

\* export { x } from './lib/b';  import '../src/index.js';
ABody ==
    <<ExportFrom(<<ExportSpecifier(Nx, Nx)>>, <<".", "/", "l", "i", "b", "/", "b">>),
      ImportDeclaration(<<>>, <<".", ".", "/", "s", "r", "c", "/", "i", "n", "d", "e", "x",
                                ".", "j", "s">>)>>

\* export const x = 1;
LibBBody ==
    <<ExportDeclaration(VariableDeclaration("const",
                                            <<VariableDeclarator(Identifier(Nx), Num(1))>>))>>

FileStates == {"ok", "bad", "missing"}

\* a file system holding the given files, each readable, unparsable or absent
MakeDisk(files, status) ==
    [f \in {g \in DOMAIN files : status[g] # "missing"} |->
        [status |-> status[f], body |-> files[f]]]

PipelineFiles == (IndexJs :> IndexBody) @@ (AJs :> ABody) @@ (LibBJs :> LibBBody)

\* the file systems of the three-file project: a file the entry cannot reach
\* through readable files is taken as absent
PipelineDisks ==
    {MakeDisk(PipelineFiles, st) :
        st \in {t \in [DOMAIN PipelineFiles -> FileStates] :
                    /\ t[IndexJs] # "ok" => t[AJs] = "missing"
                    /\ t[AJs] # "ok" => t[LibBJs] = "missing"}}

PluginNames == <<"p1", "p2", "p3", "p4">>

\* the plugin lists: up to MaxPlugins plugins, each with any set of hooks
PluginLists ==
    UNION {{[i \in 1..n |-> [name |-> PluginNames[i], hooks |-> h[i]]] :
                h \in [1..n -> SUBSET Phases]} : n \in 0..MaxPlugins}

\* 'dist/bundle.js'
DefaultOutput == <<"d", "i", "s", "t", "/", "b", "u", "n", "d", "l", "e", ".", "j", "s">>

\* normalizeConfig(config), for a config that has a plugins list
normalizeConfig(cfg) ==
    [entry |-> PathResolve(Cwd, cfg.entry.value),
     output |-> PathResolve(Cwd, IF IsNull(cfg.output) THEN DefaultOutput
                                 ELSE cfg.output.value),
     plugins |-> cfg.plugins]

\* the configuration of the demo project, bundler.config.js
DemoConfig(plist) ==
    [entry |-> Literal(<<"s", "r", "c", "/", "i", "n", "d", "e", "x", ".", "j", "s">>),
     output |-> Literal(DefaultOutput),
     plugins |-> plist]

\* new SimpleBundler(config), before bundle() is called
Constructed ==
    /\ entryFile = normalizeConfig(config).entry
    /\ outputFile = OutputJs
    /\ modules = <<>>
    /\ moduleId = 0
    /\ stack = <<>>
    /\ pc = "init"
    /\ tasks = <<>>
    /\ emit = [k |-> 0, text |-> <<>>]
    /\ written = <<>>
    /\ result = [status |-> "pending"]
    /\ readErrors = {}
    /\ firstSettled = 0
    /\ thrown = <<>>

ImportIdle == importNode = Null /\ importOut = Null

Init ==
    /\ disk \in PipelineDisks
    /\ config \in {DemoConfig(plist) : plist \in PluginLists}
    /\ plugins = normalizeConfig(config).plugins
    /\ Constructed
    /\ HostInit
    /\ ImportIdle

Spec == Init /\ [][Next]_vars

(***************************************************************************)
(* Projects that are bundled and then run                                  *)
(***************************************************************************)

BJs == <<"/", "w", "/", "s", "r", "c", "/", "b", ".", "j", "s">>

DotA == <<".", "/", "a", ".", "j", "s">>

DotB == <<".", "/", "b", ".", "j", "s">>

Na == <<"a">>

Nb == <<"b">>

Nc == <<"c">>

Nd == <<"d">>

Nf == <<"f">>

Ny == <<"y">>

Nz == <<"z">>

Nab == <<"a", "b">>

Nba == <<"b", "a">>

Nns == <<"n", "s">>

Const(name, init) ==
    VariableDeclaration("const", <<VariableDeclarator(Identifier(name), init)>>)

ExportConst(name, init) == ExportDeclaration(Const(name, init))

\* import { name } from source;  console.log(name);
ImportAndLog(name, source) ==
    <<ImportDeclaration(<<ImportSpecifier(name, name)>>, source), Log(Identifier(name))>>

\* scenario 1: default and named import of  export default 1; export const x = 2;
Scenario1 ==
    (IndexJs :> <<ImportDeclaration(<<ImportDefaultSpecifier(Nd), ImportSpecifier(Nx, Nx)>>,
                                    DotA),
                  Log(Add(Identifier(Nd), Identifier(Nx)))>>)
    @@ (AJs :> <<ExportDefaultDeclaration(Num(1)), ExportConst(Nx, Num(2))>>)

\* scenario 2: import { x as y } of  export const x = 7;
Scenario2 ==
    (IndexJs :> <<ImportDeclaration(<<ImportSpecifier(Nx, Ny)>>, DotA), Log(Identifier(Ny))>>)
    @@ (AJs :> <<ExportConst(Nx, Num(7))>>)

\* scenario 3: import * as ns of  export const a = 1; export const b = 2;
Scenario3 ==
    (IndexJs :> <<ImportDeclaration(<<ImportNamespaceSpecifier(Nns)>>, DotA),
                  Log(Add(Member(Identifier(Nns), Na), Member(Identifier(Nns), Nb)))>>)
    @@ (AJs :> <<ExportConst(Na, Num(1)), ExportConst(Nb, Num(2))>>)

\* scenario 4: a.js exports x = 9, b.js re-exports it as y, the entry prints y
Scenario4 ==
    (IndexJs :> ImportAndLog(Ny, DotB))
    @@ (BJs :> <<ExportFrom(<<ExportSpecifier(Nx, Ny)>>, DotA)>>)
    @@ (AJs :> <<ExportConst(Nx, Num(9))>>)

\* b.js:  export { x, y as z } from './a.js';  the entry prints z
ReExportTwo ==
    (IndexJs :> ImportAndLog(Nz, DotB))
    @@ (BJs :> <<ExportFrom(<<ExportSpecifier(Nx, Nx), ExportSpecifier(Ny, Nz)>>, DotA)>>)
    @@ (AJs :> <<ExportConst(Nx, Num(1)), ExportConst(Ny, Num(9))>>)

\* scenario 5: a.js and b.js import each other; the entry prints ab() and ba()
Scenario5 ==
    (IndexJs :> <<ImportDeclaration(<<ImportSpecifier(Nab, Nab)>>, DotA),
                  ImportDeclaration(<<ImportSpecifier(Nba, Nba)>>, DotB),
                  Log(Call(Identifier(Nab))), Log(Call(Identifier(Nba)))>>)
    @@ (AJs :> <<ImportDeclaration(<<ImportSpecifier(Nb, Nb)>>, DotB),
                 ExportConst(Na, Num(1)), ExportConst(Nab, Arrow(Identifier(Nb)))>>)
    @@ (BJs :> <<ImportDeclaration(<<ImportSpecifier(Na, Na)>>, DotA),
                 ExportConst(Nb, Num(2)), ExportConst(Nba, Arrow(Identifier(Na)))>>)

CJs == <<"/", "w", "/", "s", "r", "c", "/", "c", ".", "j", "s">>

DotC == <<".", "/", "c", ".", "j", "s">>

\* a.js and b.js both import c.js, the entry imports a.js and b.js
Diamond ==
    (IndexJs :> <<ImportDeclaration(<<ImportSpecifier(Na, Na)>>, DotA),
                  ImportDeclaration(<<ImportSpecifier(Nb, Nb)>>, DotB),
                  Log(Add(Identifier(Na), Identifier(Nb)))>>)
    @@ (AJs :> <<ImportDeclaration(<<ImportSpecifier(Nc, Nc)>>, DotC),
                 ExportConst(Na, Identifier(Nc))>>)
    @@ (BJs :> <<ImportDeclaration(<<ImportSpecifier(Nc, Nc)>>, DotC),
                 ExportConst(Nb, Identifier(Nc))>>)
    @@ (CJs :> <<ExportConst(Nc, Num(1))>>)

\* the entry imports itself
SelfImport ==
    (IndexJs :> <<ImportDeclaration(<<>>, <<".", "/", "i", "n", "d", "e", "x", ".", "j", "s">>),
                  Log(Num(1))>>)

\* the forms of a module that exports by declaration or by source-less list
ExportForms ==
    {<<ExportConst(Nx, Num(1))>>,
     <<ExportDeclaration(VariableDeclaration("let", <<VariableDeclarator(Identifier(Nx), Null)>>))>>,
     <<ExportDeclaration(VariableDeclaration("var", <<VariableDeclarator(Identifier(Nx), Num(3))>>))>>,
     <<ExportDeclaration(FunctionDeclaration(Identifier(Nx)))>>,
     <<ExportDeclaration(ClassDeclaration(Identifier(Nx)))>>,
     <<Const(Nx, Num(1)), ExportList(<<ExportSpecifier(Nx, Nx)>>)>>,
     <<Const(Nb, Num(1)), ExportList(<<ExportSpecifier(Nb, Nx)>>)>>,
     <<Const(Na, Num(1)), Const(Nb, Num(2)),
       ExportList(<<ExportSpecifier(Na, Na), ExportSpecifier(Nb, Nx)>>)>>}

\* the entry prints x, which a.js exports in one of the forms
ExportProjects == {(IndexJs :> ImportAndLog(Nx, DotA)) @@ (AJs :> body) : body \in ExportForms}

\* import d from source;  console.log(d);
ImportDefaultAndLog(source) ==
    <<ImportDeclaration(<<ImportDefaultSpecifier(Nd)>>, source), Log(Identifier(Nd))>>

\* the shapes of a default export: an identifier, a named function or class,
\* an anonymous function or class, another expression
DefaultForms ==
    {<<Const(Nx, Num(5)), ExportDefaultDeclaration(Identifier(Nx))>>,
     <<ExportDefaultDeclaration(FunctionDeclaration(Identifier(Nf)))>>,
     <<ExportDefaultDeclaration(ClassDeclaration(Identifier(Nc)))>>,
     <<ExportDefaultDeclaration(Anonymous("FunctionDeclaration"))>>,
     <<ExportDefaultDeclaration(Anonymous("ClassDeclaration"))>>,
     <<ExportDefaultDeclaration(Add(Num(1), Num(2)))>>,
     <<Const(Nx, Num(5)), ExportDefaultDeclaration(Arrow(Identifier(Nx)))>>}

\* the entry prints the default export of a.js
DefaultProjects ==
    {(IndexJs :> ImportDefaultAndLog(DotA)) @@ (AJs :> body) : body \in DefaultForms}

\* the entry imports a.js under three specifiers: './a', './a.js' and
\* './lib/../a.js'
Aliases ==
    (IndexJs :> <<ImportDeclaration(<<ImportSpecifier(Nx, Nx)>>, <<".", "/", "a">>),
                  ImportDeclaration(<<ImportSpecifier(Nx, Ny)>>, DotA),
                  ImportDeclaration(<<ImportNamespaceSpecifier(Nns)>>,
                                    <<".", "/", "l", "i", "b", "/", ".", ".", "/", "a", ".",
                                      "j", "s">>),
                  Log(Add(Identifier(Nx), Identifier(Ny)))>>)
    @@ (AJs :> <<ExportConst(Nx, Num(1))>>)

\* a.js holds an import, an exported declaration and a default export
Mixed ==
    (IndexJs :> <<ImportDeclaration(<<ImportDefaultSpecifier(Nd), ImportSpecifier(Nx, Nx)>>,
                                    DotA),
                  Log(Add(Identifier(Nd), Identifier(Nx)))>>)
    @@ (AJs :> <<ImportDeclaration(<<ImportSpecifier(Nc, Nc)>>, DotC),
                 ExportConst(Nx, Identifier(Nc)),
                 ExportDefaultDeclaration(Num(2))>>)
    @@ (CJs :> <<ExportConst(Nc, Num(1))>>)

\* b.js:  export { x } from './a.js';  export { y } from './a.js';
ReExportSameTwice ==
    (IndexJs :> ImportAndLog(Nx, DotB))
    @@ (BJs :> <<ExportFrom(<<ExportSpecifier(Nx, Nx)>>, DotA),
                 ExportFrom(<<ExportSpecifier(Ny, Ny)>>, DotA)>>)
    @@ (AJs :> <<ExportConst(Nx, Num(1)), ExportConst(Ny, Num(2))>>)

ADashBJs == <<"/", "w", "/", "s", "r", "c", "/", "a", "-", "b", ".", "j", "s">>

AUnderBJs == <<"/", "w", "/", "s", "r", "c", "/", "a", "_", "b", ".", "j", "s">>

\* b.js:  export { x } from './a-b.js';  export { y } from './a_b.js';
ReExportAlike ==
    (IndexJs :> ImportAndLog(Nx, DotB))
    @@ (BJs :> <<ExportFrom(<<ExportSpecifier(Nx, Nx)>>,
                            <<".", "/", "a", "-", "b", ".", "j", "s">>),
                 ExportFrom(<<ExportSpecifier(Ny, Ny)>>,
                            <<".", "/", "a", "_", "b", ".", "j", "s">>)>>)
    @@ (ADashBJs :> <<ExportConst(Nx, Num(1))>>)
    @@ (AUnderBJs :> <<ExportConst(Ny, Num(2))>>)

\* b.js:  export * from './a.js';  the entry prints x
ExportStar ==
    (IndexJs :> ImportAndLog(Nx, DotB))
    @@ (BJs :> <<ExportAll(DotA)>>)
    @@ (AJs :> <<ExportConst(Nx, Num(1))>>)

\* the entry requires a key that no module has, twice, each time inside a try
TwiceMissing ==
    IndexJs :> <<TryRequire(RelativeKey(CJs)), TryRequire(RelativeKey(CJs)), Log(Num(1))>>

\* a.js prints 1 and throws; the entry requires it twice inside a try, then
\* imports it
ThrowsOnce ==
    (IndexJs :> <<TryRequire(RelativeKey(AJs)), TryRequire(RelativeKey(AJs)),
                  ImportDeclaration(<<>>, DotA), Log(Num(2))>>)
    @@ (AJs :> <<Log(Num(1)), Throw, Log(Num(3))>>)

\* the entry imports from a file that does not exist, then from a.js
MissingFirst ==
    (IndexJs :> <<ImportDeclaration(<<ImportSpecifier(Nc, Nc)>>, DotC),
                  ImportDeclaration(<<ImportSpecifier(Nx, Nx)>>, DotA),
                  Log(Identifier(Nx))>>)
    @@ (AJs :> <<ExportConst(Nx, Num(1))>>)

\* the entry imports from a file that does not exist
MissingDependency == IndexJs :> ImportAndLog(Nx, DotA)

\* the entry imports from packages
ExternalDefault ==
    IndexJs :> <<ImportDeclaration(<<ImportDefaultSpecifier(Nd)>>, <<"p", "k", "g">>)>>

ExternalBare == IndexJs :> <<ImportDeclaration(<<>>, <<"p", "k", "g">>)>>

ExternalNamespace ==
    IndexJs :> <<ImportDeclaration(<<ImportNamespaceSpecifier(Nns)>>, <<"p", "k", "g">>)>>

ExternalNamed ==
    IndexJs :> <<ImportDeclaration(<<ImportSpecifier(Nx, Nx)>>, <<"p", "k", "g">>)>>

ExternalRenamed ==
    IndexJs :> <<ImportDeclaration(<<ImportSpecifier(Nx, Ny)>>, <<"p", "k", "g">>)>>

AllOk(files) == MakeDisk(files, [f \in DOMAIN files |-> "ok"])

RunDisks ==
    {AllOk(files) :
        files \in {Scenario1, Scenario2, Scenario3, Scenario4, ReExportTwo, Scenario5,
                   SelfImport, Diamond, Mixed, Aliases, MissingDependency, MissingFirst,
                   TwiceMissing, ThrowsOnce, ReExportSameTwice, ReExportAlike,
                   ExportStar, ExternalDefault, ExternalBare,
                  ExternalNamespace, ExternalNamed, ExternalRenamed}
                  \cup ExportProjects \cup DefaultProjects}

\* no plugin, or one plugin with a hook for every phase
RunPlugins == {<<>>, <<[name |-> "p1", hooks |-> Phases]>>}

InitRun ==
    /\ disk \in RunDisks
    /\ config \in {DemoConfig(plist) : plist \in RunPlugins}
    /\ plugins = normalizeConfig(config).plugins
    /\ Constructed
    /\ HostInit
    /\ ImportIdle

NextRun ==
    \/ Next
    \/ HostRejects
    \/ HostStarts
    \/ RequireCached
    \/ RequireLoads
    \/ RequireReturns
    \/ StatementRuns
    \/ StatementThrows

SpecRun == InitRun /\ [][NextRun]_vars

\* VisitModule can take a step: each of its steps changes the stack
VisitModuleEnabled ==
    /\ pc = "graph" /\ stack # <<>> /\ Top.state = "enter"
    /\ Has(modules, Top.filePath) \/ Readable(disk, Top.filePath)

\* FollowDependency can take a step: each of its steps changes the stack
FollowDependencyEnabled ==
    /\ pc = "graph" /\ stack # <<>> /\ Top.state = "loop"
    /\ Top.i <= Len(Get(modules, Top.filePath).dependencies)

\* bundle() and buildDependencyGraph run synchronously: a step of theirs that
\* can be taken is taken.  For VisitModule and FollowDependency the weak
\* fairness condition is written out, with the enabling condition above in
\* place of ENABLED
GraphFairness ==
    /\ WF_vars(StartBundle)
    /\ WF_vars(VisitFails)
    /\ WF_vars(ReturnFromModule)
    /\ []<>(~VisitModuleEnabled) \/ []<><<VisitModule>>_vars
    /\ []<>(~FollowDependencyEnabled) \/ []<><<FollowDependency>>_vars

SpecRunFair == InitRun /\ [][NextRun]_vars /\ GraphFairness

(***************************************************************************)
(* buildImportReplacement over the import declarations                     *)
(***************************************************************************)

\* the longest list of named specifiers of a declaration
MaxNamed == 2

ImportedNames == {Nx, Ny}

LocalNames == {Nx, Ny, Nz}

\* the lists of up to n named specifiers with distinct local names
RECURSIVE NamedLists(_)
NamedLists(n) ==
    IF n = 0 THEN {<<>>}
    ELSE NamedLists(n - 1)
         \cup {Append(l, ImportSpecifier(i, lo)) :
                 l \in {m \in NamedLists(n - 1) : Len(m) = n - 1},
                 i \in ImportedNames, lo \in LocalNames}

DistinctLocals(l) == \A i, j \in 1..Len(l) : i # j => l[i].local # l[j].local

\* the specifier lists the parser produces: an optional default specifier,
\* followed by a namespace specifier or by a list of named specifiers
SpecifierLists ==
    {d \o r : d \in {<<>>, <<ImportDefaultSpecifier(Nd)>>},
              r \in {<<ImportNamespaceSpecifier(Nns)>>}
                    \cup {l \in NamedLists(MaxNamed) : DistinctLocals(l)}}

\* the key of './a.js' imported from the entry
ImportedKey == RelativeKey(resolveDependencyPath(IndexJs, DotA))

InitImport ==
    /\ disk = <<>>
    /\ config = DemoConfig(<<>>)
    /\ plugins = <<>>
    /\ Constructed
    /\ HostInit
    /\ importNode \in {ImportDeclaration(sp, DotA) : sp \in SpecifierLists}
    /\ importOut = Null

\* processImport hands the declaration to buildImportReplacement
BuildImport ==
    /\ importNode # Null /\ importOut = Null
    /\ importOut' = buildImportReplacement(importNode, ImportedKey)
    /\ UNCHANGED <<bundlerVars, hostVars, importNode, config>>

NextImport == BuildImport

SpecImport == InitImport /\ [][NextImport]_vars

(***************************************************************************)
(* bundleProject and a caller of the exported class                        *)
(***************************************************************************)

\* the configurations: output given as in the demo project, or left out
ProjectConfigs ==
    {[DemoConfig(plist) EXCEPT !.output = out] :
        plist \in RunPlugins, out \in {Null, Literal(DefaultOutput)}}

InitProject ==
    /\ disk \in PipelineDisks
    /\ config \in ProjectConfigs
    /\ plugins = <<>>
    /\ entryFile = <<>>
    /\ outputFile = <<>>
    /\ modules = <<>>
    /\ moduleId = 0
    /\ stack = <<>>
    /\ pc = "cli"
    /\ tasks = <<>>
    /\ emit = [k |-> 0, text |-> <<>>]
    /\ written = <<>>
    /\ result = [status |-> "pending"]
    /\ readErrors = {}
    /\ firstSettled = 0
    /\ thrown = <<>>
    /\ HostInit
    /\ ImportIdle

\* bundleProject(configPath) up to the call of bundler.bundle(config.output):
\* path.dirname(config.output) throws when config.output is undefined, and
\* the catch ends the process
BundleProject ==
    /\ pc = "cli"
    /\ IF IsNull(config.output)
       THEN /\ pc' = "failed"
            /\ result' = [status |-> "rejected", error |-> [type |-> "TypeError"]]
            /\ UNCHANGED <<entryFile, outputFile, plugins>>
       ELSE /\ pc' = "init"
            /\ entryFile' = normalizeConfig(config).entry
            /\ plugins' = normalizeConfig(config).plugins
            /\ outputFile' = config.output.value
            /\ UNCHANGED result
    /\ UNCHANGED <<disk, modules, moduleId, stack, tasks, emit, written, readErrors, thrown>>
    /\ UNCHANGED <<hostVars, importVars, config, firstSettled>>

\* a caller of the exported class: new SimpleBundler(config), then
\* bundle(config.output)
BundleDirectly ==
    /\ pc = "cli"
    /\ pc' = "init"
    /\ entryFile' = normalizeConfig(config).entry
    /\ plugins' = normalizeConfig(config).plugins
    /\ outputFile' = IF IsNull(config.output) THEN <<>> ELSE config.output.value
    /\ UNCHANGED <<disk, modules, moduleId, stack, tasks, emit, written, result, readErrors,
                   thrown>>
    /\ UNCHANGED <<hostVars, importVars, config, firstSettled>>

NextProject ==
    \/ BundleProject
    \/ BundleDirectly
    \/ Next

SpecProject == InitProject /\ [][NextProject]_vars

(***************************************************************************)
(* Properties                                                              *)
(***************************************************************************)

\* C1: if reading or parsing any module reachable from the entry fails, the
\* entry itself or a dependency at any depth, the bundle call fails: bundle()
\* rejects, returns no bundle text and writes no output file
C1_ReadFailureIsFatal ==
    readErrors # {} => /\ pc # "done"
                       /\ result.status # "resolved"
                       /\ written = <<>>

\* buildDependencyGraph(this.entryFile) has returned normally
GraphBuilt == pc \in {"transform", "bundle", "done"} \/ (pc = "graph" /\ stack = <<>>)

\* C2: whenever buildDependencyGraph returns normally for the entry, every
\* local dependency specifier of every module record of the graph, import
\* source or re-export source, resolves to a key present in the graph
C2_GraphClosed ==
    GraphBuilt =>
        \A i \in 1..Len(modules) :
            \A j \in 1..Len(modules[i].dependencies) :
                LET dependency == modules[i].dependencies[j]
                IN  isLocalModule(dependency)
                        => Has(modules, resolveDependencyPath(modules[i].filePath, dependency))

\* C3: in one bundle call the output file is written at most once, and only
\* after graph construction, every module transform and every bundle hook
\* have completed successfully; if one of these stages fails (its error
\* leaves the stage) the output file is never written
C3_WrittenOnceAfterSuccess ==
    /\ Len(written) <= 1
    /\ written # <<>> =>
            /\ pc = "done" /\ stack = <<>> /\ modules # <<>>
            /\ Len(tasks) = Len(modules)
            /\ \A i \in 1..Len(tasks) : tasks[i].phase = "done"
            /\ emit.k = 0 /\ written[1] = emit.text
            /\ thrown = <<>>
            /\ result = [status |-> "resolved", value |-> written[1]]
    /\ (pc = "failed" \/ thrown # <<>> \/ result.status = "rejected") => written = <<>>

\* a bundle of three modules, transformed and passed through bundle hooks of
\* two plugins, has been written
C3_Witness ==
    /\ written # <<>> /\ Len(modules) = 3 /\ Len(plugins) = 2
    /\ \A i \in 1..2 : plugins[i].hooks = Phases

RECURSIVE ComposeHooks(_, _, _)
\* the hooks of one phase composed over the plugins that define it, the first
\* plugin's hook innermost
ComposeHooks(plist, phase, text) ==
    IF plist = <<>> THEN text
    ELSE LET init == SubSeq(plist, 1, Len(plist) - 1)
             last == plist[Len(plist)]
         IN  IF phase \in last.hooks THEN Hook(last, phase, ComposeHooks(init, phase, text))
             ELSE ComposeHooks(init, phase, text)

\* C9: for every phase and text, applyPlugins returns the composition of the
\* phase's hooks over the plugins that define it, in configured order;
\* plugins lacking the phase are skipped, and with no plugin the text is
\* returned unchanged
C9_HooksCompose ==
    /\ \A i \in 1..Len(tasks) :
            tasks[i].phase = "done" =>
                tasks[i].text =
                    ComposeHooks(plugins, "postTransform",
                                 TransformText(modules[i],
                                               ComposeHooks(plugins, "preTransform",
                                                            modules[i].content)))
    /\ pc = "done" =>
            result.value =
                ComposeHooks(plugins, "bundle",
                             AssembleBundle(modules, [i \in 1..Len(tasks) |-> tasks[i].text],
                                            entryFile))
    /\ (pc = "done" /\ plugins = <<>>) =>
            result.value =
                AssembleBundle(modules,
                               [i \in 1..Len(modules) |->
                                    TransformText(modules[i], modules[i].content)],
                               entryFile)

\* a bundle call has completed with two plugins: both have a bundle hook and
\* a preTransform hook, only the second has a postTransform hook
C9_Witness ==
    /\ pc = "done" /\ Len(plugins) = 2 /\ Len(modules) >= 2
    /\ plugins[1].hooks = {"preTransform", "bundle"}
    /\ plugins[2].hooks = Phases

RECURSIVE Discover(_, _, _)
\* the module records of the files reachable from a list of paths, depth
\* first and each dependency list in source order, added to mods; a file
\* that cannot be read or parsed is passed over
Discover(d, paths, mods) ==
    IF paths = <<>> THEN mods
    ELSE LET filePath == Head(paths)
         IN  IF Has(mods, filePath) \/ ~Readable(d, filePath)
             THEN Discover(d, Tail(paths), mods)
             ELSE LET module == readModule(d, filePath, Len(mods))
                      local == SelectSeq(module.dependencies, isLocalModule)
                      targets == [j \in 1..Len(local) |->
                                    resolveDependencyPath(filePath, local[j])]
                  IN  Discover(d, targets \o Tail(paths), Append(mods, module))

\* the bundle text the inputs determine: the modules in discovery order, each
\* transformed between its hooks, assembled and passed through the bundle hooks
ReferenceBundle(d, plist, entry) ==
    LET graph == Discover(d, <<entry>>, <<>>)
        bodies == [i \in 1..Len(graph) |->
                    ComposeHooks(plist, "postTransform",
                                 TransformText(graph[i],
                                               ComposeHooks(plist, "preTransform",
                                                            graph[i].content)))]
    IN  ComposeHooks(plist, "bundle", AssembleBundle(graph, bodies, entry))

\* C14: two bundle calls over the same source files, configuration and
\* deterministic plugins return byte-identical bundle text, for every
\* interleaving and completion order of the concurrent module transforms:
\* the text returned is the one text the inputs determine
C14_OutputDetermined ==
    result.status = "resolved" =>
        result.value = ReferenceBundle(disk, normalizeConfig(config).plugins,
                                       normalizeConfig(config).entry)

\* a bundle of three modules was returned after the hooks of two plugins ran
\* for each of them
C14_Witness ==
    /\ result.status = "resolved" /\ Len(modules) = 3 /\ Len(plugins) = 2
    /\ \A i \in 1..2 : {"preTransform", "postTransform"} \subseteq plugins[i].hooks

\* no two records of the graph have the same key
UniqueKeys(mods) ==
    \A i, j \in 1..Len(mods) : i # j => mods[i].filePath # mods[j].filePath

\* the absolute path a local specifier written in the file at path denotes
CanonicalTarget(path, specifier) ==
    PathResolve(PathDirname(path),
                IF EndsWith(specifier, DotJs) THEN specifier ELSE specifier \o DotJs)

\* every readable file that some local specifier of a record denotes has
\* exactly one record
OneRecordPerTarget(mods) ==
    \A i \in 1..Len(mods) :
        \A j \in 1..Len(mods[i].dependencies) :
            LET specifier == mods[i].dependencies[j]
                target == CanonicalTarget(mods[i].filePath, specifier)
            IN  (isLocalModule(specifier) /\ Readable(disk, target))
                    => Cardinality({k \in 1..Len(mods) : mods[k].filePath = target}) = 1

\* the graph builder is about to look at a key that the graph holds
Rediscovery ==
    /\ pc = "graph" /\ stack # <<>>
    /\ \/ Top.state = "enter" /\ Has(modules, Top.filePath)
       \/ /\ Top.state = "loop"
          /\ Top.i <= Len(Get(modules, Top.filePath).dependencies)
          /\ LET dependency == Get(modules, Top.filePath).dependencies[Top.i]
             IN  /\ isLocalModule(dependency)
                 /\ Has(modules, CanonicalTarget(Top.filePath, dependency))

\* C15: the graph holds at most one module record per canonical key: two
\* specifiers that resolve to the same absolute path (./a, ./a.js,
\* ./x/../a.js, from any importer) yield a single record, and a second
\* attempt to discover a present key leaves the graph and the id counter
\* unchanged
C15_OneRecordPerKey ==
    [][/\ UniqueKeys(modules')
       /\ (pc' \in {"transform", "bundle", "done"}) => OneRecordPerTarget(modules')
       /\ Rediscovery => (modules' = modules /\ moduleId' = moduleId)]_vars

\* the graph of the project that imports a.js under three specifiers is
\* built: it holds the entry and a.js
C15_Witness ==
    /\ disk = AllOk(Aliases) /\ pc = "transform"
    /\ Len(modules) = 2 /\ moduleId = 2
    /\ Len(modules[1].dependencies) = 3

\* the import declarations of a record that name a package
ExternalImports(module) ==
    SelectSeq(Parse(disk[module.filePath].body),
              LAMBDA ln : /\ ln.node.type = "ImportDeclaration"
                          /\ ~isLocalModule(ln.node.source.value))

\* the text a record holds in place of a located node
ReplacementOf(module, ln) ==
    LET edits == SelectSeq(module.transformations,
                           LAMBDA e : e.start = ln.start /\ e.end = ln.end)
    IN  IF edits = <<>> THEN <<>> ELSE edits[1].replacement

\* the replacement of an import is one statement the host accepts, it
\* declares the import's local names and no other, and it is a plain require
\* when the import has no specifier
RequireStyle(node, replacement) ==
    LET stmts == Statements(replacement)
        names == IF Len(stmts) = 1 THEN LexicalNames(stmts[1]) ELSE <<>>
    IN  /\ Len(stmts) = 1 /\ stmts[1] # Invalid
        /\ {names[i] : i \in 1..Len(names)}
                = {node.specifiers[i].local : i \in 1..Len(node.specifiers)}
        /\ Len(names) = Len(node.specifiers)
        /\ node.specifiers = <<>> => stmts[1].k = "req"

\* C16: the rewrite of an import whose source is a package is a well-formed
\* require-style statement that introduces exactly the local bindings the
\* import declared: none for import 'S', ns for a namespace import, d for a
\* default import, y for import {x as y}
C16_ExternalImportWellFormed ==
    \A i \in 1..Len(modules) :
        LET imports == ExternalImports(modules[i])
        IN  \A j \in 1..Len(imports) :
                RequireStyle(imports[j].node, ReplacementOf(modules[i], imports[j]))

\* the entries of the module table of a bundle text, as emitted
TableEntries(bundleText) == SelectSeq(bundleText, LAMBDA it : it.k = "module")

\* C17: the emitted module table lists the modules in discovery order
\* (ascending id, the entry first), whatever the order in which their
\* transforms completed
C17_TableInDiscoveryOrder ==
    pc \in {"bundle", "done"} =>
        LET entries == TableEntries(emit.text)
        IN  /\ Len(entries) = Len(modules)
            /\ \A i \in 1..Len(modules) :
                    /\ entries[i].path = RelativeKey(modules[i].filePath)
                    /\ modules[i].id = i - 1
            /\ entries[1].path = RelativeKey(entryFile)

\* a bundle of three modules was returned and the transform of the module
\* discovered last was the first to complete
C17_Witness ==
    /\ pc = "done" /\ result.status = "resolved"
    /\ Len(modules) = 3 /\ firstSettled = 3
    /\ TableEntries(result.value)[3].path = RelativeKey(modules[3].filePath)

\* the hook invocations that have been made and have not settled: the
\* transforms waiting for a hook, and bundle() waiting for a bundle hook
PendingHooks ==
    Cardinality({i \in 1..Len(tasks) : Waiting(tasks[i])})
        + (IF pc = "bundle" /\ emit.k # 0 THEN 1 ELSE 0)

\* C18: during one bundle call at most one plugin hook invocation is pending
\* at any time: no hook of any plugin, phase or module is invoked while a
\* hook invoked before has not settled
C18_OneHookPending == PendingHooks <= 1

\* the assignments to exports.<name> in a transformed module body
ExportAssignments(text, name) ==
    SelectSeq(text, LAMBDA it : it.k \in {"expassign", "expmember", "exptext"}
                                 /\ it.prop = name)

\* C19: for every module and every name in its exports set, the transformed
\* module body contains exactly one assignment to exports.<name>, whichever
\* export form introduced the name: exported declaration, source-less
\* export list, or re-export from another module
C19_OneAssignmentPerExport ==
    \A i \in 1..Len(tasks) :
        tasks[i].phase = "done" =>
            \A j \in 1..Len(modules[i].exports.named) :
                Len(ExportAssignments(tasks[i].text, modules[i].exports.named[j])) = 1

\* the keys of project files that the statements of a module table pass to
\* require
RequiredKeys(tbl) ==
    UNION {{tbl[key][i].from :
                i \in {j \in 1..Len(tbl[key]) : /\ CallsRequire(tbl[key][j])
                                                  /\ tbl[key][j].k # "tryreq"
                                                  /\ isLocalModule(tbl[key][j].from)}} :
           key \in DOMAIN tbl}

\* C20: in a bundle produced by a successful bundle call, every key passed to
\* require by the rewritten imports and re-exports of any module, and the key
\* of the entry invocation, is a key of the emitted module table, so no such
\* require raises 'Module not found'
C20_RequiredKeysInTable ==
    /\ result.status = "resolved" =>
            LET tbl == ModuleTable(result.value)
            IN  /\ EntryKey(result.value) \in DOMAIN tbl
                /\ RequiredKeys(tbl) \subseteq DOMAIN tbl
    /\ host.status = "threw" =>
            \A key \in {EntryKey(written[1])} \cup RequiredKeys(table) :
                host.error # Failure("Error", <<"Module not found", key>>)

\* C21: buildDependencyGraph terminates on every finite set of source files,
\* import cycles, self-imports and diamond-shaped sharing included: every
\* bundle call reaches the return of its outermost buildDependencyGraph call
C21_GraphTerminates == <>(pc # "init" /\ stack = <<>>)

\* graph construction is over on a project with an import cycle, on one with
\* a self-import or on one with a shared dependency
C21_Witness ==
    /\ pc = "transform" /\ stack = <<>>
    /\ \/ disk = AllOk(Scenario5) /\ Len(modules) = 3
       \/ disk = AllOk(SelfImport) /\ Len(modules) = 1
       \/ disk = AllOk(Diamond) /\ Len(modules) = 4

\* C22: the ids of the module records in the graph are exactly 0..n-1 with no
\* repeats and increase in first-discovery order, the entry having id 0, also
\* when some dependency could not be read or parsed and was left out
C22_IdsContiguous ==
    /\ \A i \in 1..Len(modules) : modules[i].id = i - 1
    /\ modules # <<>> => modules[1].filePath = entryFile

\* the graph is built, the first dependency of the entry could not be read
\* and the second, discovered after it, has id 1
C22_Witness ==
    /\ disk = AllOk(MissingFirst) /\ pc = "transform"
    /\ readErrors = {CJs}
    /\ Len(modules) = 2 /\ modules[2].filePath = AJs /\ modules[2].id = 1

\* the plugins configured before the k-th
Before(plist, k) == SubSeq(plist, 1, k - 1)

\* the text a transform holds at its position: while it waits for the
\* preTransform hook of plugin k, the original text through the preTransform
\* hooks before k, no edit applied; from then on, the text after all
\* preTransform hooks, edited and with the trailing assignments, through the
\* postTransform hooks before k, or through all of them when it is done
TransformOrdered(i) ==
    LET task == tasks[i]
        module == modules[i]
        edited == TransformText(module,
                                ComposeHooks(plugins, "preTransform", module.content))
    IN  /\ task.phase = "preTransform" =>
                task.text = ComposeHooks(Before(plugins, task.k), "preTransform",
                                         module.content)
        /\ task.phase = "postTransform" =>
                task.text = ComposeHooks(Before(plugins, task.k), "postTransform", edited)
        /\ task.phase = "done" =>
                task.text = ComposeHooks(plugins, "postTransform", edited)

\* C23: the steps of a bundle call are ordered: graph construction finishes
\* before the first plugin hook runs; for each module all preTransform hooks
\* finish before its edits are applied and the trailing assignments
\* appended, and its postTransform hooks run only after that; every module's
\* postTransform finishes before the module table is assembled and before
\* the first bundle hook; the bundle hooks finish before the output write
C23_StepsOrdered ==
    /\ pc \in {"init", "graph"} => tasks = <<>> /\ emit.text = <<>> /\ written = <<>>
    /\ tasks # <<>> =>
            /\ stack = <<>> /\ Len(tasks) = Len(modules) /\ moduleId = Len(modules)
            /\ \A i \in 1..Len(tasks) : TransformOrdered(i)
    /\ emit.text # <<>> =>
            /\ \A i \in 1..Len(tasks) : tasks[i].phase = "done"
            /\ LET assembled ==
                       AssembleBundle(modules, [i \in 1..Len(tasks) |-> tasks[i].text],
                                      entryFile)
               IN  emit.text =
                       IF emit.k = 0 THEN ComposeHooks(plugins, "bundle", assembled)
                       ELSE ComposeHooks(Before(plugins, emit.k), "bundle", assembled)
    /\ written # <<>> => emit.k = 0 /\ written = <<emit.text>>

\* a bundle was written after two plugins ran their hooks of every phase
\* over a module that has edits
C23_Witness ==
    /\ pc = "done" /\ written # <<>>
    /\ Len(plugins) = 2 /\ \A k \in 1..2 : plugins[k].hooks = Phases
    /\ Len(modules) = 3 /\ modules[1].transformations # <<>>
    /\ TransformOrdered(1)

\* the edits of a record lie within its source text
EditsInBounds(module) ==
    \A i \in 1..Len(module.transformations) :
        LET e == module.transformations[i]
        IN  0 <= e.start /\ e.start <= e.end /\ e.end <= Len(module.content)

\* the spans of two distinct edits of a record do not overlap
EditsDisjoint(module) ==
    \A i, j \in 1..Len(module.transformations) :
        LET e == module.transformations[i]
            f == module.transformations[j]
        IN  i # j => (e.end <= f.start \/ f.end <= e.start)

\* C24: in every module record produced by the analyzer, every edit satisfies
\* 0 <= start <= end <= source length and the spans of any two distinct
\* edits of the record do not overlap, for any mix of import, named-export
\* and default-export declarations in the module
C24_EditsDisjointInBounds ==
    \A i \in 1..Len(modules) : EditsInBounds(modules[i]) /\ EditsDisjoint(modules[i])

\* the record of a module that holds an import, an exported declaration and
\* a default export has three edits
C24_Witness ==
    /\ disk = AllOk(Mixed) /\ Len(modules) >= 2
    /\ modules[2].filePath = AJs
    /\ Len(modules[2].transformations) = 3
    /\ EditsDisjoint(modules[2])

\* the error require throws for a key that is not in the module table
ModuleNotFound(key) == Failure("Error", <<"Module not found", key>>)

\* C25: in the emitted runtime, every call require(key) with key absent
\* from the module table, the first call and every later call for the same
\* key, fails with the 'Module not found' error instead of returning an
\* exports object: the step of such a call ends the run with that error or
\* hands it to the catch around the call
C25_AbsentKeyAlwaysFails ==
    [][(AtStatement /\ CallsRequire(Statement) /\ Statement.from \notin DOMAIN table)
            => \/ host' = [status |-> "threw", error |-> ModuleNotFound(Statement.from)]
               \/ console' = Append(console, ModuleNotFound(Statement.from))]_vars

\* the alias constants the re-export edits of a record declare
AliasDeclarations(module) ==
    FlatMap(LAMBDA e : SelectSeq(e.replacement,
                                 LAMBDA it : /\ it.k = "constreq"
                                             /\ StartsWith(it.name, RequireVarName(<<>>))),
            module.transformations)

\* C26: within one transformed module the alias constants introduced for its
\* re-export declarations are pairwise distinct: no two re-export
\* declarations, from the same specifier or from specifiers that differ
\* only in non-identifier characters such as ./a-b.js and ./a_b.js, declare
\* the same alias name
C26_AliasesDistinct ==
    \A m \in 1..Len(modules) :
        LET aliases == AliasDeclarations(modules[m])
        IN  \A i, j \in 1..Len(aliases) : i # j => aliases[i].name # aliases[j].name

\* the warnings the bundle call has printed: console.warn is called where
\* buildDependencyGraph catches the failure of a dependency, and nowhere in
\* analyzeModule
Warnings ==
    {[text |-> "Could not resolve dependency", path |-> p] : p \in readErrors \ {entryFile}}

\* the namespace re-exports of a record, located in its source
NamespaceReExports(module) ==
    SelectSeq(Parse(disk[module.filePath].body),
              LAMBDA ln : ln.node.type = "ExportAllDeclaration")

\* no edit of the record touches the located node
Untouched(module, ln) ==
    \A i \in 1..Len(module.transformations) :
        LET e == module.transformations[i]
        IN  e.end <= ln.start \/ ln.end <= e.start

\* the returned bundle lists the module and holds the node as written
EmittedVerbatim(module, ln) ==
    \E i \in 1..Len(TableEntries(result.value)) :
        LET entry == TableEntries(result.value)[i]
        IN  /\ entry.path = RelativeKey(module.filePath)
            /\ \E j \in 1..Len(entry.content) : entry.content[j] = Src(ln.node)

\* C27: when a module contains a namespace re-export, export * from S,
\* analysis surfaces a warning for it, records no edit touching the
\* declaration, and the bundle call still succeeds with that module present
\* in the module table
C27_NamespaceReExportWarned ==
    \A m \in 1..Len(modules) :
        LET found == NamespaceReExports(modules[m])
        IN  \A n \in 1..Len(found) :
                /\ \E w \in Warnings : w.path = modules[m].filePath
                /\ Untouched(modules[m], found[n])
                /\ pc = "done" =>
                        /\ result.status = "resolved"
                        /\ EmittedVerbatim(modules[m], found[n])

\* C28: in the emitted runtime, for any sequence of require calls, nested,
\* cyclic or repeated, including calls made after a module body threw, each
\* module body is executed at most once per evaluation of the bundle: the
\* cache entry is stored before the body runs and is never removed
C28_BodyRunsOnce ==
    /\ \A i, j \in 1..Len(started) : i # j => started[i] # started[j]
    /\ \A i \in 1..Len(started) : started[i] \in DOMAIN cache

\* the body of a.js printed 1 and threw inside the first call; the entry
\* required a.js twice more and ran to its end, and a.js ran once
C28_Witness ==
    /\ disk = AllOk(ThrowsOnce) /\ host.status = "finished"
    /\ started = <<RelativeKey(IndexJs), RelativeKey(AJs)>>
    /\ console = <<Number(1), Failure("Error", <<"thrown">>), Number(2)>>

\* C10: when a plugin hook throws or rejects in any phase, the bundle call
\* fails with an error that identifies the failing plugin's name and the phase
C10_PluginErrorNamesPluginAndPhase ==
    thrown # <<>> =>
        /\ result.status = "rejected"
        /\ result.error.type = "PluginError"
        /\ result.error.plugin = thrown[1].plugin
        /\ result.error.phase = thrown[1].phase

\* C11: when the configuration object gives entry but omits output, a
\* successful bundle call writes the bundle to dist/bundle.js under the
\* working directory
C11_DefaultOutputWritten ==
    (IsNull(config.output) /\ result.status = "resolved") =>
        /\ written # <<>>
        /\ PathResolve(Cwd, outputFile) = OutputJs

\* the names a source module exports by declaration or by source-less list,
\* each with the local binding it stands for
RECURSIVE DeclaredExports(_)
DeclaredExports(body) ==
    IF body = <<>> THEN <<>>
    ELSE LET node == Head(body)
             pairs ==
                IF node.type # "ExportNamedDeclaration" \/ ~IsNull(node.source) THEN <<>>
                ELSE IF IsNull(node.declaration)
                THEN Map(LAMBDA sp : [exported |-> sp.exported, local |-> sp.local],
                         node.specifiers)
                ELSE IF node.declaration.type = "VariableDeclaration"
                THEN Map(LAMBDA d : [exported |-> d.id.name, local |-> d.id.name],
                         node.declaration.declarations)
                ELSE <<[exported |-> node.declaration.id.name,
                        local |-> node.declaration.id.name]>>
         IN  pairs \o DeclaredExports(Tail(body))

\* the names a source module re-exports from a local module, each with the
\* key of that module and the name it has there
RECURSIVE ReExports(_, _)
ReExports(path, body) ==
    IF body = <<>> THEN <<>>
    ELSE LET node == Head(body)
             pairs ==
                IF node.type # "ExportNamedDeclaration" \/ IsNull(node.source) THEN <<>>
                ELSE Map(LAMBDA sp :
                            [exported |-> sp.exported, name |-> sp.local,
                             from |-> RelativeKey(resolveDependencyPath(path,
                                                                        node.source.value))],
                         node.specifiers)
         IN  pairs \o ReExports(path, Tail(body))

\* the body of the module with this key has run to its end
Executed(key) ==
    /\ host.status \in {"running", "finished"}
    /\ key \in DOMAIN cache
    /\ \A i \in 1..Len(frames) : frames[i].key # key

\* C4: for a module containing  export { a, b as c } from S  with S a local
\* module, executing the bundled module completes without error and leaves
\* exports.a equal to S's export a and exports.c equal to S's export b, so
\* that a module importing c obtains S's b (scenario 4 prints 9)
C4_ReExportsBound ==
    /\ (\E path \in DOMAIN disk : ReExports(path, disk[path].body) # <<>>)
            => host.status # "threw"
    /\ \A path \in DOMAIN disk :
            Executed(RelativeKey(path)) =>
                LET pairs == ReExports(path, disk[path].body)
                    exports == cache[RelativeKey(path)]
                IN  \A i \in 1..Len(pairs) :
                        /\ pairs[i].exported \in DOMAIN exports
                        /\ pairs[i].name \in DOMAIN cache[pairs[i].from]
                        /\ exports[pairs[i].exported] = cache[pairs[i].from][pairs[i].name]
    /\ (disk = AllOk(Scenario4) /\ host.status = "finished") => console = <<Number(9)>>

\* C5: after a bundled module's body has executed, for every name the source
\* exports by  export const/let/var,  export function/class  or a source-less
\* list  export { a, b as c },  the exports object has a property of the
\* exported name with the value of the local binding, and no error was raised
C5_ExportsComplete ==
    /\ disk \in {AllOk(files) : files \in ExportProjects} => host.status # "threw"
    /\ \A path \in DOMAIN disk :
            Executed(RelativeKey(path)) =>
                LET pairs == DeclaredExports(disk[path].body)
                    exports == cache[RelativeKey(path)]
                    scope == scopes[RelativeKey(path)]
                IN  \A i \in 1..Len(pairs) :
                        /\ pairs[i].exported \in DOMAIN exports
                        /\ pairs[i].local \in DOMAIN scope
                        /\ exports[pairs[i].exported] = scope[pairs[i].local]

RECURSIVE Rewrite(_, _, _)
\* the text read once from offset i on: where an edit starts its replacement
\* stands for its span, everything else is copied
Rewrite(content, edits, i) ==
    IF i >= Len(content) THEN <<>>
    ELSE LET here == {k \in 1..Len(edits) : edits[k].start = i /\ edits[k].end > i}
         IN  IF here # {}
             THEN LET e == edits[CHOOSE k \in here : TRUE]
                  IN  e.replacement \o Rewrite(content, edits, e.end)
             ELSE <<content[i + 1]>> \o Rewrite(content, edits, i + 1)

\* the items of a module's source outside its import and export declarations
OutsideDeclarations(path) ==
    LET content == Unparse(disk[path].body)
        spans == SelectSeq(Parse(disk[path].body),
                           LAMBDA ln : ln.node.type \in {"ImportDeclaration",
                                                         "ExportNamedDeclaration",
                                                         "ExportDefaultDeclaration"})
        outside == {i \in 1..Len(content) :
                        \A k \in 1..Len(spans) : ~(spans[k].start < i /\ i <= spans[k].end)}
    IN  SelectSeq([i \in 1..Len(content) |-> [at |-> i, item |-> content[i]]],
                  LAMBDA it : it.at \in outside)

RECURSIVE IsSubsequence(_, _)
IsSubsequence(part, whole) ==
    IF part = <<>> THEN TRUE
    ELSE IF whole = <<>> THEN FALSE
    ELSE IF Head(part) = Head(whole) THEN IsSubsequence(Tail(part), Tail(whole))
    ELSE IsSubsequence(part, Tail(whole))

NoTransformHooks ==
    \A k \in 1..Len(plugins) : plugins[k].hooks \cap {"preTransform", "postTransform"} = {}

\* C13: with no preTransform or postTransform plugin, the transformed body of
\* a module equals its source with each edit span replaced by that edit's
\* replacement, followed by the trailing export assignments; all source text
\* outside import/export declarations is preserved and in its original order
C13_OnlyEditsChangeText ==
    NoTransformHooks =>
        \A i \in 1..Len(tasks) :
            tasks[i].phase = "done" =>
                LET module == modules[i]
                    trailing == AdditionalExports(module)
                    edited == Rewrite(module.content, module.transformations, 0)
                    kept == OutsideDeclarations(module.filePath)
                IN  /\ tasks[i].text =
                            IF trailing = <<>> THEN edited
                            ELSE edited \o <<NL>> \o JoinLines(trailing)
                    /\ IsSubsequence([k \in 1..Len(kept) |-> kept[k].item],
                                     SubSeq(tasks[i].text, 1, Len(edited)))

\* the entry of scenario 1, with an import followed by a statement, and a.js
\* with two export declarations, have been transformed
C13_Witness ==
    /\ disk = AllOk(Scenario1) /\ plugins = <<>>
    /\ Len(tasks) = 2 /\ \A i \in 1..2 : tasks[i].phase = "done"
    /\ Len(modules[2].transformations) = 2
    /\ OutsideDeclarations(IndexJs) # <<>>

\* the default export declarations of a source module
DefaultExports(body) == SelectSeq(body, LAMBDA node : node.type = "ExportDefaultDeclaration")

\* the value a module's default export declaration denotes in the module's
\* scope: that of the identifier, of the named declaration, or of the
\* expression
OriginalDefault(path) ==
    LET decl == DefaultExports(disk[path].body)[1].declaration
        key == RelativeKey(path)
    IN  IF decl.type \in {"FunctionDeclaration", "ClassDeclaration"} /\ ~IsNull(decl.id)
        THEN scopes[key][decl.id.name]
        ELSE Eval(decl, key, scopes, cache)

\* the default imports of a source module from local modules that have a
\* default export: the local name and the path imported from
RECURSIVE DefaultImports(_, _)
DefaultImports(path, body) ==
    IF body = <<>> THEN <<>>
    ELSE LET node == Head(body)
             target == resolveDependencyPath(path, node.source.value)
             found ==
                IF node.type = "ImportDeclaration" /\ isLocalModule(node.source.value)
                   /\ target \in DOMAIN disk /\ DefaultExports(disk[target].body) # <<>>
                THEN Map(LAMBDA sp : [local |-> sp.local, from |-> target],
                         OfType(node.specifiers, "ImportDefaultSpecifier"))
                ELSE <<>>
         IN  found \o DefaultImports(path, Tail(body))

\* C12: for each default-export shape, export default <identifier>, a named
\* export default function F / class C, and an anonymous function/class or
\* other expression, a second bundled module doing  import d from  that
\* module obtains in d the original exported value
C12_DefaultRoundTrip ==
    /\ disk \in {AllOk(files) : files \in DefaultProjects} => host.status # "threw"
    /\ \A path \in DOMAIN disk :
            Executed(RelativeKey(path)) =>
                LET wanted == DefaultImports(path, disk[path].body)
                IN  \A i \in 1..Len(wanted) :
                        /\ wanted[i].local \in DOMAIN scopes[RelativeKey(path)]
                        /\ scopes[RelativeKey(path)][wanted[i].local]
                                = OriginalDefault(wanted[i].from)

\* the entry has printed the named function that a.js exports by default
C12_Witness ==
    /\ host.status = "finished"
    /\ AJs \in DOMAIN disk
    /\ disk[AJs].body = <<ExportDefaultDeclaration(FunctionDeclaration(Identifier(Nf)))>>
    /\ console = <<[t |-> "fn", scope |-> RelativeKey(AJs), name |-> Nf]>>

\* C7: executing the runtime on a module table whose require calls form a
\* cycle terminates: the nesting of running module bodies never exceeds the
\* number of modules and never overflows the stack, because no body is
\* entered while it is running; a require of a running module's key is served
\* from the cache
C7_NoReentry ==
    /\ \A i, j \in 1..Len(frames) : i # j => frames[i].key # frames[j].key
    /\ Len(frames) <= Cardinality(DOMAIN table)
    /\ host.status = "threw" => host.error.type # "RangeError"
    /\ \A i \in 1..Len(frames) : frames[i].key \in DOMAIN cache

\* a module on the table has just required, from the cache, a module whose
\* body is running further down the stack
C7_Witness ==
    /\ Running /\ Len(frames) >= 2 /\ Current.ip > 1
    /\ LET prev == table[Current.key][Current.ip - 1]
       IN  /\ CallsRequire(prev)
           /\ \E i \in 1..(Len(frames) - 1) : frames[i].key = prev.from

\* C8: in the two-module import cycle of scenario 5, once the entry has
\* finished loading, calling either function returns the other module's
\* exported value: ab() yields 2 and ba() yields 1
C8_CycleValues ==
    (disk = AllOk(Scenario5) /\ host.status = "finished")
        => console = <<Number(2), Number(1)>>

\* the exports object of the imported module
ImportedExports == (Nx :> Number(1)) @@ (Ny :> Number(2)) @@ (DefaultName :> Number(3))

\* the bindings an import declaration asks for: the namespace, then the
\* default, then the named ones in the order written
RequestedBindings(node) ==
    Map(LAMBDA sp : [name |-> sp.local, value |-> [t |-> "obj", ref |-> ImportedKey]],
        OfType(node.specifiers, "ImportNamespaceSpecifier"))
    \o Map(LAMBDA sp : [name |-> sp.local, value |-> ImportedExports[DefaultName]],
           OfType(node.specifiers, "ImportDefaultSpecifier"))
    \o Map(LAMBDA sp : [name |-> sp.local, value |-> ImportedExports[sp.imported]],
           OfType(node.specifiers, "ImportSpecifier"))

RECURSIVE RunRequires(_, _, _, _)
\* the scopes after the host has run a list of require statements
RunRequires(stmts, key, sc, ca) ==
    IF stmts = <<>> THEN sc
    ELSE RunRequires(Tail(stmts), key, BindRequire(Head(stmts), key, sc, ca), ca)

\* C6: for every import declaration with a local specifier S, the replacement
\* text binds exactly the declaration's local names, each once and to the
\* right value (ns to require(S), d to require(S).default, local y to
\* require(S).x), in the order namespace, default, named; a side-effect
\* import becomes a bare require(S)
C6_ImportBindings ==
    importOut # Null =>
        LET stmts == Statements(importOut.replacement)
            wanted == RequestedBindings(importNode)
            bound == FlatMap(LexicalNames, stmts)
            importer == RelativeKey(IndexJs)
            after == RunRequires(stmts, importer, importer :> <<>>,
                                 ImportedKey :> ImportedExports)[importer]
        IN  /\ \A i \in 1..Len(stmts) : CallsRequire(stmts[i]) /\ stmts[i].from = ImportedKey
            /\ bound = Map(LAMBDA b : b.name, wanted)
            /\ DOMAIN after = {wanted[i].name : i \in 1..Len(wanted)}
            /\ \A i \in 1..Len(wanted) : after[wanted[i].name] = wanted[i].value
            /\ importNode.specifiers = <<>> => stmts = <<BareRequire(ImportedKey)>>

\* a declaration with a default, a plain and a renamed specifier was replaced
C6_Witness ==
    /\ importOut # Null
    /\ Len(importNode.specifiers) = 3
    /\ \E i \in 2..3 : importNode.specifiers[i].imported # importNode.specifiers[i].local
    /\ \E i \in 2..3 : importNode.specifiers[i].imported = importNode.specifiers[i].local

====
